---- MODULE Spec2Model ----
(***************************************************************************)
(* Gryd: the two canvas renderers (CanvasRenderer, IOSRenderer), the iOS   *)
(* blur / noise strategies with their caches, the shared texture loader    *)
(* and the bootstrap error boundary.                                       *)
(*                                                                         *)
(* A drawing surface is modelled by its display list: the sequence of      *)
(* paint operations that are still visible on it.  An opaque full-surface  *)
(* paint with the default context state hides everything below it and so   *)
(* resets the list.  Real numbers in [0,1] are percentages (50 = 0.5);      *)
(* globalAlpha is kept in thousandths and a blur filter radius in thirds   *)
(* of a pixel (0 = filter "none"), the units the glow passes need.         *)
(***************************************************************************)
EXTENDS Integers, Sequences, FiniteSets, TLC

VARIABLES rs,    \* renderer instances: Instances -> renderer record
          tex,   \* textureLoader.ts: the module-level textureCache and its image loads
          pool,  \* the compositions the store hands to the renderers in this run
          app    \* the mounted CanvasBootstrap / pipeline component

vars == <<rs, tex, pool, app>>

Null == [null |-> TRUE]
Undef == [undefined |-> TRUE]

Min(a, b) == IF a < b THEN a ELSE b
Max(a, b) == IF a > b THEN a ELSE b

Instances == {1, 2}

(***************************************************************************)
(* Canvas 2D context                                                       *)
(***************************************************************************)
IdentityXf == [x |-> 0, y |-> 0, scale |-> 100, rotation |-> 0]

DefaultState == [gco |-> "source-over", alpha |-> 1000, filter |-> 0, xf |-> IdentityXf]

\* a canvas element as created (or as cleared by assigning width / height)
NewCanvas(w, h) ==
    [width |-> w, height |-> h, content |-> << >>, st |-> DefaultState, stack |-> << >>]

\* canvas.width = w; canvas.height = h : the bitmap is cleared, the context state reset
SetSize(cv, w, h) == NewCanvas(w, h)

Save(cv) == [cv EXCEPT !.stack = Append(cv.stack, cv.st)]

Restore(cv) ==
    IF cv.stack = << >> THEN cv
    ELSE [cv EXCEPT !.st = cv.stack[Len(cv.stack)],
                    !.stack = SubSeq(cv.stack, 1, Len(cv.stack) - 1)]

SetGco(cv, g) == [cv EXCEPT !.st.gco = g]
\* ctx.globalAlpha = a: a value outside [0, 1] is ignored by the context
SetAlpha(cv, a) == IF a < 0 \/ a > 1000 THEN cv ELSE [cv EXCEPT !.st.alpha = a]
SetFilter(cv, f) == [cv EXCEPT !.st.filter = f]

\* translate(center + offset); rotate; scale; translate(-center): the layer transform
\* about the canvas centre, composed with the current transform
Transform(cv, t) ==
    [cv EXCEPT !.st.xf = IF cv.st.xf = IdentityXf THEN t ELSE [outer |-> cv.st.xf, inner |-> t]]

\* an opaque paint over the whole surface: with the default state nothing below it
\* stays visible, otherwise it is composited over what is there
PaintAll(cv, paint) ==
    IF cv.st = DefaultState
    THEN [cv EXCEPT !.content = <<paint>>]
    ELSE [cv EXCEPT !.content = Append(cv.content, paint @@ [st |-> cv.st])]

\* a paint that blends with what is below it (gradient layers, overlays)
PaintOver(cv, paint) == [cv EXCEPT !.content = Append(cv.content, paint @@ [st |-> cv.st])]

\* ctx.fillStyle = color; ctx.fillRect(0, 0, width, height)
FillBackground(cv, color) == PaintAll(cv, [op |-> "fill", color |-> color])

\* ctx.drawImage(src, 0, 0, width, height) of an opaque canvas
DrawCanvas(cv, src) ==
    IF cv.st = DefaultState
    THEN IF src.width = cv.width /\ src.height = cv.height
         THEN [cv EXCEPT !.content = src.content]
         ELSE [cv EXCEPT !.content =
                  <<[op |-> "image", w |-> src.width, h |-> src.height, src |-> src.content]>>]
    ELSE [cv EXCEPT !.content = Append(cv.content,
              [op |-> "image", w |-> src.width, h |-> src.height, src |-> src.content,
               st |-> cv.st])]

(***************************************************************************)
(* Blend modes                                                             *)
(***************************************************************************)
\* CanvasRenderer.mapBlendMode : the table has the 8 modes of the BlendMode type
\* the union type BlendMode
BlendMode == {"normal", "multiply", "screen", "overlay", "soft-light", "hard-light",
              "color-dodge", "color-burn"}

\* a table with two modes on one operation
canvasBlendModeMapMerged ==
    [b \in BlendMode |-> IF b = "normal" THEN "source-over"
                         ELSE IF b = "overlay" THEN "multiply" ELSE b]

canvasBlendModeMap ==
    [b \in {"normal", "multiply", "screen", "overlay", "soft-light", "hard-light",
            "color-dodge", "color-burn"} |-> IF b = "normal" THEN "source-over" ELSE b]

mapBlendMode(blendMode) ==
    IF blendMode \in DOMAIN canvasBlendModeMap
    THEN canvasBlendModeMap[blendMode] ELSE "source-over"

\* IOSRenderer.mapBlendMode : a 16-entry table
iosBlendModeMap ==
    [b \in {"normal", "multiply", "screen", "overlay", "darken", "lighten",
            "color-dodge", "color-burn", "hard-light", "soft-light",
            "difference", "exclusion", "hue", "saturation", "color",
            "luminosity"} |-> IF b = "normal" THEN "source-over" ELSE b]

iosMapBlendMode(blendMode) ==
    IF blendMode \in DOMAIN iosBlendModeMap
    THEN iosBlendModeMap[blendMode] ELSE "source-over"

(***************************************************************************)
(* Compositions (types/index.ts)                                           *)
(***************************************************************************)
createDefaultTransform == [x |-> 0, y |-> 0, scale |-> 100, rotation |-> 0]

createDefaultEffects ==
    [blur |-> [enabled |-> FALSE, radius |-> 0],
     noise |-> [enabled |-> FALSE, intensity |-> 50, scale |-> 50],
     glow |-> [enabled |-> FALSE, intensity |-> 50, spread |-> 20]]

Stop(color, position) == [color |-> color, position |-> position]

\* createDefaultLayer('Layer 1', 'radial')
LayerRadial ==
    [id |-> "L1", type |-> "radial", visible |-> TRUE, opacity |-> 100,
     colors |-> <<Stop("#22c55e", 0), Stop("#0a0a0a", 100)>>,
     transform |-> createDefaultTransform, blendMode |-> "normal",
     effects |-> createDefaultEffects]

\* an edited layer: linear, multiplied at half opacity, moved and rotated
LayerLinear ==
    [id |-> "L2", type |-> "linear", visible |-> TRUE, opacity |-> 50,
     colors |-> <<Stop("#3b82f6", 0), Stop("#ffffff", 50), Stop("#0a0a0a", 100)>>,
     transform |-> [x |-> 50, y |-> 0, scale |-> 150, rotation |-> 90],
     blendMode |-> "multiply", effects |-> createDefaultEffects]

\* a layer left with one colour stop while the user edits it
LayerOneStop ==
    [id |-> "L3", type |-> "linear", visible |-> TRUE, opacity |-> 100,
     colors |-> <<Stop("#ef4444", 0)>>,
     transform |-> createDefaultTransform, blendMode |-> "screen",
     effects |-> createDefaultEffects]

LayerHidden == [LayerLinear EXCEPT !.id = "L4", !.visible = FALSE]

\* layers as an editor or an imported file can leave them: a colour stop at position 1.5,
\* an opacity of 1.5, a layer blur of radius -5
LayerBadStop ==
    [LayerRadial EXCEPT !.id = "L5", !.colors = <<Stop("#22c55e", 0), Stop("#0a0a0a", 150)>>]
LayerBadOpacity == [LayerLinear EXCEPT !.id = "L6", !.opacity = 150]
LayerNegRadius ==
    [LayerRadial EXCEPT !.id = "L7", !.effects.blur = [enabled |-> TRUE, radius |-> -5]]

\* halftone settings: gradientPosition in hundredths, dot sizes in tenths of a pixel,
\* colours as their red, green and blue bytes
createDefaultHalftoneEffect ==
    [enabled |-> FALSE,
     gradientPosition |-> 50,
     sourceA |-> [dotSizeRange |-> <<5, 20>>, dotDensity |-> "low", contrast |-> "low",
                  noiseLevel |-> "medium", patternType |-> "stochastic_halftone",
                  baseColor |-> <<240, 240, 240>>, inkColor |-> <<51, 51, 51>>],
     sourceB |-> [dotSizeRange |-> <<25, 60>>, dotDensity |-> "high", contrast |-> "high",
                  noiseLevel |-> "low", patternType |-> "ordered_halftone",
                  baseColor |-> <<255, 255, 255>>, inkColor |-> <<0, 0, 0>>],
     blendMode |-> "overlay",
     dotSizeMultiplier |-> 10,
     contrastIntensity |-> 50,
     noiseBlend |-> 30,
     opacity |-> 50]

createDefaultGlobalEffects ==
    [blur |-> [enabled |-> FALSE, strength |-> 30],
     grain |-> [enabled |-> FALSE, amount |-> 10, size |-> 1],
     noise |-> [enabled |-> FALSE, intensity |-> 30, scale |-> 50, type |-> "perlin"],
     halftone |-> createDefaultHalftoneEffect,
     metal |-> [enabled |-> FALSE, density |-> 100, opacity |-> 50,
                blendMode |-> "overlay"],
     texture |-> [enabled |-> FALSE, presetId |-> "frosted_glass_smooth_001",
                  opacity |-> 50, blendMode |-> "overlay", scale |-> 100]]

FxNone == createDefaultGlobalEffects
FxBlur(s) == [FxNone EXCEPT !.blur = [enabled |-> TRUE, strength |-> s]]
FxGrain(a, z) == [FxNone EXCEPT !.grain = [enabled |-> TRUE, amount |-> a, size |-> z]]
FxAll(s) ==
    [blur |-> [enabled |-> TRUE, strength |-> s],
     grain |-> [enabled |-> TRUE, amount |-> 50, size |-> 1],
     noise |-> [enabled |-> TRUE, intensity |-> 30, scale |-> 50, type |-> "random"],
     halftone |-> [createDefaultHalftoneEffect EXCEPT !.enabled = TRUE,
                                                     !.blendMode = "multiply"],
     metal |-> [enabled |-> TRUE, density |-> 100, opacity |-> 50,
                blendMode |-> "luminosity"],
     texture |-> [enabled |-> TRUE, presetId |-> "frosted_glass_smooth_001",
                  opacity |-> 50, blendMode |-> "overlay", scale |-> 100]]
\* the halftone overlay alone, at a gradient position and with the two pattern types
FxHalftone(t, patternA, patternB) ==
    [FxNone EXCEPT !.halftone = [createDefaultHalftoneEffect EXCEPT
                                    !.enabled = TRUE,
                                    !.gradientPosition = t,
                                    !.sourceA.patternType = patternA,
                                    !.sourceB.patternType = patternB]]
\* degenerate settings: zero strengths, a missing block, an unknown texture preset
FxOdd ==
    [blur |-> [enabled |-> TRUE, strength |-> 0],
     grain |-> [enabled |-> TRUE, amount |-> 0, size |-> 1],
     noise |-> [enabled |-> FALSE, intensity |-> 30, scale |-> 50, type |-> "perlin"],
     halftone |-> Undef,
     metal |-> [enabled |-> TRUE, density |-> 100, opacity |-> 50,
                blendMode |-> "overlay"],
     texture |-> [enabled |-> TRUE, presetId |-> "no_such_preset",
                  opacity |-> 50, blendMode |-> "overlay", scale |-> 100]]

Composition(bg, layers, fx) ==
    [canvas |-> [backgroundColor |-> bg], layers |-> layers, globalEffects |-> fx]

LayerStack == <<LayerRadial, LayerOneStop, LayerHidden, LayerLinear>>

\* the edits of a session: the default composition, global blur switched on, the same
\* blur over other layers, every effect at once with a blur above every tier's cap, grain
\* alone, and degenerate effect settings
Compositions ==
    { Composition("#0a0a0a", <<LayerRadial>>, FxNone),
      Composition("#0a0a0a", <<LayerRadial>>, FxBlur(10)),
      Composition("#ffffff", LayerStack, FxBlur(10)),
      Composition("#0a0a0a", LayerStack, FxAll(110)),
      Composition("#0a0a0a", <<LayerRadial>>, FxGrain(10, 1)),
      Composition("#0a0a0a", << >>, FxOdd) }

\* the enabled flag ignored: every defined block counts
EnabledWhenDefined(block) == block # Undef

\* x?.enabled
Enabled(block) == block # Undef /\ block.enabled

(***************************************************************************)
(* qualityTiers.ts                                                         *)
(***************************************************************************)
\* grainResolution is kept in halves (MEDIUM is 1.5): grainResolution2 = 2 * grainResolution
TIER_SETTINGS ==
    [LOW    |-> [blurQuality |-> "low", maxBlurStrength |-> 20, grainResolution2 |-> 4,
                 enableComplexBlending |-> FALSE],
     MEDIUM |-> [blurQuality |-> "medium", maxBlurStrength |-> 50, grainResolution2 |-> 3,
                 enableComplexBlending |-> TRUE],
     HIGH   |-> [blurQuality |-> "high", maxBlurStrength |-> 100, grainResolution2 |-> 2,
                 enableComplexBlending |-> TRUE]]

getTierSettings(tier) == TIER_SETTINGS[tier]

\* window.screen.width / height and window.devicePixelRatio of the device:
\* iPhone SE, iPhone 12, iPhone 14 Pro Max
Screens == { [width |-> 320, height |-> 568, dpr |-> 2],
             [width |-> 390, height |-> 844, dpr |-> 3],
             [width |-> 430, height |-> 932, dpr |-> 3] }

detectIOSTier(screen) ==
    LET pixels == screen.width * screen.height * screen.dpr * screen.dpr
        logicalHeight == Max(screen.width, screen.height)
    IN  IF pixels < 2 * 1000000 THEN "LOW"          \* mp < 2
        ELSE IF logicalHeight > 900 THEN "HIGH"
        ELSE IF logicalHeight > 800 THEN "MEDIUM"
        ELSE "LOW"

(***************************************************************************)
(* canvasConstraints.ts                                                    *)
(***************************************************************************)
MAX_IOS_DPR == 2
MAX_IOS_DIMENSION == 2048

\* a cap on the width alone
getConstrainedDimensionsWidthOnly(cssWidth, cssHeight, systemDpr) ==
    LET dpr == Min(systemDpr, 4 * MAX_IOS_DPR)
        width == (cssWidth * dpr) \div 4
        height == (cssHeight * dpr) \div 4
    IN  IF width > MAX_IOS_DIMENSION
        THEN [width |-> MAX_IOS_DIMENSION,
              height |-> (MAX_IOS_DIMENSION * height) \div width, dpr |-> dpr]
        ELSE [width |-> width, height |-> height, dpr |-> dpr]

\* pixel ratios are in quarters (4 is a ratio of 1); ratio = width / height is kept exact
getConstrainedDimensions(cssWidth, cssHeight, systemDpr) ==
    LET dpr == Min(systemDpr, 4 * MAX_IOS_DPR)
        width == (cssWidth * dpr) \div 4
        height == (cssHeight * dpr) \div 4
    IN  IF width > MAX_IOS_DIMENSION \/ height > MAX_IOS_DIMENSION
        THEN IF width > height
             THEN [width |-> MAX_IOS_DIMENSION,
                   height |-> (MAX_IOS_DIMENSION * height) \div width, dpr |-> dpr]
             ELSE [width |-> (MAX_IOS_DIMENSION * width) \div height,
                   height |-> MAX_IOS_DIMENSION, dpr |-> dpr]
        ELSE [width |-> width, height |-> height, dpr |-> dpr]

(***************************************************************************)
(* textureLoader.ts                                                        *)
(***************************************************************************)
GrainIntensities == {"light", "medium", "heavy"}
BlurIntensities == {"soft", "medium", "heavy"}

\* the six texture images: GRAIN_PATHS and BLUR_PATHS
Images == {<<"grain", g>> : g \in GrainIntensities} \cup {<<"blur", b>> : b \in BlurIntensities}

\* textureCache as the module is loaded; img is the state of each image request and
\* requests the number of times loadImage was called for it
NoTextures ==
    [grain |-> {}, blur |-> {}, loaded |-> FALSE, loading |-> "null",
     img |-> [i \in Images |-> "idle"], requests |-> [i \in Images |-> 0]]

\* textureCache after preloadTextures() has completed
AllTextures ==
    [grain |-> GrainIntensities, blur |-> BlurIntensities, loaded |-> TRUE,
     loading |-> "settled", img |-> [i \in Images |-> "loaded"],
     requests |-> [i \in Images |-> 1]]

mapGrainIntensity(amount) ==
    IF amount < 33 THEN "light" ELSE IF amount < 66 THEN "medium" ELSE "heavy"

mapBlurIntensity(strength) ==
    IF strength < 15 THEN "soft" ELSE IF strength < 35 THEN "medium" ELSE "heavy"

\* textureCache.grain.get(intensity) || null
getGrainTexture(t, amount) ==
    IF mapGrainIntensity(amount) \in t.grain
    THEN [texture |-> <<"grain", mapGrainIntensity(amount)>>] ELSE Null

getBlurTexture(t, strength) ==
    IF mapBlurIntensity(strength) \in t.blur
    THEN [texture |-> <<"blur", mapBlurIntensity(strength)>>] ELSE Null

\* ready as soon as any texture is stored
areTexturesLoadedAny(t) == t.grain # {} \/ t.blur # {}

areTexturesLoaded(t) == t.loaded

\* save; createPattern; globalCompositeOperation, globalAlpha, fillStyle; fillRect; restore
tileTexture(cv, texture, opacity, blendMode, effect) ==
    Restore(PaintOver(SetAlpha(SetGco(Save(cv), blendMode), opacity),
                      [op |-> "tile", texture |-> texture.texture, effect |-> effect]))

(***************************************************************************)
(* A renderer instance.  log is the trace of the last public call (render  *)
(* or resize): the call, then the drawing steps it made.                   *)
(***************************************************************************)
Log(r, e) == [r EXCEPT !.log = Append(r.log, e)]

\* ctx.fillStyle = color; ctx.fillRect(0, 0, width, height) on the visible surface
\* ("canvas") or on the offscreen buffer
fillSurface(r, target, color) == [r EXCEPT ![target] = FillBackground(r[target], color)]

\* ctx.drawImage(this.offscreenCanvas, 0, 0, width, height)
drawOffscreen(r) == [r EXCEPT !.canvas = DrawCanvas(r.canvas, r.offscreen)]

(***************************************************************************)
(* blurStrategy.ts                                                         *)
(***************************************************************************)
createBlurCache == [buffer |-> Null, strength |-> 0, isValid |-> FALSE]

\* the blur cache left as it is
blurCacheKept(cache) == cache

invalidateBlurCache(cache) == [cache EXCEPT !.isValid = FALSE]

\* Math.floor(size / Math.max(2, Math.min(20, strength / 5)))
Downscaled(size, strength) ==
    IF strength < 10 THEN size \div 2
    ELSE IF strength > 100 THEN size \div 20
    ELSE (5 * size) \div strength

\* the cached buffer is regenerated from the source canvas or reused, then drawn
\* (upscaled) over the whole target
applyDownscaleBlur(r, strength, width, height) ==
    LET cache == r.blurCache
        regenerate == \/ ~cache.isValid
                      \/ cache.buffer = Null
                      \/ cache.strength # strength
                      \/ cache.buffer.width = 0
        smallW == Max(16, Downscaled(width, strength))
        smallH == Max(16, Downscaled(height, strength))
        cache1 == IF regenerate
                  THEN [buffer |-> DrawCanvas(NewCanvas(smallW, smallH), r.offscreen),
                        strength |-> strength, isValid |-> TRUE]
                  ELSE cache
    IN  Log([r EXCEPT !.blurCache = cache1,
                      !.canvas = DrawCanvas(r.canvas, cache1.buffer)],
            [ev |-> "blurEngine", strength |-> strength, reused |-> ~regenerate])

\* the blur texture tiled over the blurred frame, when the textures are loaded
blurTextureOverlay(r, t, strength) ==
    IF areTexturesLoaded(t) /\ getBlurTexture(t, strength) # Null
    THEN Log([r EXCEPT !.canvas = tileTexture(r.canvas, getBlurTexture(t, strength),
                                              Min(600, 10 * strength), "screen", "blur")],
             [ev |-> "tile", texture |-> getBlurTexture(t, strength).texture])
    ELSE r

applySafeBlur(r, t, strength, width, height) ==
    IF strength <= 0
    THEN drawOffscreen(r)
    ELSE blurTextureOverlay(applyDownscaleBlur(r, strength, width, height), t, strength)

(***************************************************************************)
(* noiseStrategy.ts                                                        *)
(***************************************************************************)
createNoiseCache == [buffer |-> Null, params |-> << >>, isValid |-> FALSE]

invalidateNoiseCache(cache) == [cache EXCEPT !.isValid = FALSE]

\* Math.random() fills the buffer: seed names the random values drawn
generateFallbackNoiseTexture(width, height, amount, scale2, seed) ==
    [width |-> width, height |-> height, amount |-> amount, scale2 |-> scale2, seed |-> seed]

\* a key that leaves the intensity out
ParamsKeyWithoutIntensity(width, height, intensity, scale2, type) ==
    <<width, height, scale2, type>>

\* `${width}x${height}-${intensity}-${scale}-${type}`
ParamsKey(width, height, intensity, scale2, type) == <<width, height, intensity, scale2, type>>

\* which is "grainCache" or "noiseCache"; scale2 is twice the scale
applySafeNoise(r, t, which, width, height, intensity, scale2, type, seed) ==
    IF intensity <= 0 THEN r
    ELSE IF areTexturesLoaded(t) /\ getGrainTexture(t, intensity) # Null
    THEN Log([r EXCEPT !.canvas = tileTexture(r.canvas, getGrainTexture(t, intensity),
                                              Min(1000, 15 * intensity), "overlay", type)],
             [ev |-> "tile", texture |-> getGrainTexture(t, intensity).texture])
    ELSE LET cache == r[which]
             paramsKey == ParamsKey(width, height, intensity, scale2, type)
             regenerate == ~cache.isValid \/ cache.params # paramsKey \/ cache.buffer = Null
             cache1 == IF regenerate
                       THEN [buffer |-> generateFallbackNoiseTexture(width, height, intensity,
                                                                     scale2, seed),
                             params |-> paramsKey, isValid |-> TRUE]
                       ELSE cache
             cv == Restore(PaintOver(SetAlpha(SetGco(Save(r.canvas), "overlay"), 1000),
                                     [op |-> "noise", buffer |-> cache1.buffer,
                                      effect |-> type]))
         IN  Log([r EXCEPT ![which] = cache1, !.canvas = cv],
                 [ev |-> "noise", cache |-> which, generated |-> regenerate])

(***************************************************************************)
(* IOSRenderer.ts                                                          *)
(***************************************************************************)
\* new IOSRenderer(canvas) on a device with the given screen
IOSRendererNew(width, height, screen) ==
    [kind |-> "ios",
     canvas |-> NewCanvas(width, height),
     offscreen |-> NewCanvas(width, height),
     animationFrameId |-> Null,
     isFilterSupported |-> FALSE,
     blurCache |-> createBlurCache,
     grainCache |-> createNoiseCache,
     noiseCache |-> createNoiseCache,
     tier |-> detectIOSTier(screen),
     lastComposition |-> Null,
     log |-> << >>]

\* only a layer without any stop is skipped
SkippedWhenEmpty(layer) == Len(layer.colors) < 1

\* if (colors.length < 2) return
Skipped(layer) == Len(layer.colors) < 2

\* gradient.addColorStop(offset, color) throws IndexSizeError for an offset outside [0, 1]
IndexSizeError == [error |-> "IndexSizeError"]
AddColorStopThrows(colors) ==
    \E k \in DOMAIN colors : colors[k].position < 0 \/ colors[k].position > 100

\* the exception leaves the frame: the last entry of the call's trace
Threw(r) == r.log # << >> /\ r.log[Len(r.log)].ev = "throw"

\* createGradientOnContext: mesh is drawn as the centred radial gradient
iosCreateGradient(layer, width, height) ==
    IF layer.type \in {"linear", "radial", "mesh"} /\ AddColorStopThrows(layer.colors)
    THEN IndexSizeError
    ELSE IF layer.type = "linear"
    THEN [type |-> "linear", colors |-> layer.colors, width |-> width, height |-> height]
    ELSE IF layer.type \in {"radial", "mesh"}
    THEN [type |-> "radial", colors |-> layer.colors, width |-> width, height |-> height]
    ELSE Null

\* target is "canvas" (the visible surface) or "offscreen"
renderLayerToContext(r, layer, target, width, height) ==
    IF Skipped(layer) THEN r
    ELSE LET cv1 == Transform(SetAlpha(SetGco(Save(r[target]),
                                              iosMapBlendMode(layer.blendMode)),
                                       10 * layer.opacity),
                              layer.transform)
             gradient == iosCreateGradient(layer, width, height)
             cv2 == IF gradient # Null
                    THEN PaintOver(cv1, [op |-> "layer", id |-> layer.id,
                                         gradient |-> gradient])
                    ELSE cv1
         IN  IF gradient = IndexSizeError
             THEN Log([r EXCEPT ![target] = cv1], [ev |-> "throw"])
             ELSE Log([r EXCEPT ![target] = Restore(cv2)],
                      [ev |-> "layer", id |-> layer.id, target |-> target])

\* for (const layer of layers) { if (!layer.visible) continue; renderLayer... }
RECURSIVE iosRenderLayers(_, _, _, _, _)
iosRenderLayers(r, layers, target, width, height) ==
    IF layers = << >> \/ Threw(r) THEN r
    ELSE iosRenderLayers(IF Head(layers).visible
                         THEN renderLayerToContext(r, Head(layers), target, width, height)
                         ELSE r,
                         Tail(layers), target, width, height)

\* the requested strength passed on as it is
iosApplyGlobalBlurUnclamped(r, t, blur) ==
    IF blur = Undef \/ ~blur.enabled \/ blur.strength <= 0
    THEN drawOffscreen(r)
    ELSE applySafeBlur(Log(r, [ev |-> "effect", name |-> "blur"]), t, blur.strength,
                       r.canvas.width, r.canvas.height)

iosApplyGlobalBlur(r, t, blur) ==
    IF blur = Undef \/ ~blur.enabled \/ blur.strength <= 0
    THEN drawOffscreen(r)
    ELSE applySafeBlur(Log(r, [ev |-> "effect", name |-> "blur"]), t,
                       Min(blur.strength, getTierSettings(r.tier).maxBlurStrength),
                       r.canvas.width, r.canvas.height)

\* effectiveSize = Math.max(1, size * grainResolution), in halves
iosApplyGrain(r, t, amount, size, seed) ==
    applySafeNoise(Log(r, [ev |-> "effect", name |-> "grain"]), t, "grainCache",
                   r.canvas.width, r.canvas.height, amount,
                   Max(2, size * getTierSettings(r.tier).grainResolution2), "grain", seed)

iosApplyNoise(r, t, intensity, scale, seed) ==
    applySafeNoise(Log(r, [ev |-> "effect", name |-> "noise"]), t, "noiseCache",
                   r.canvas.width, r.canvas.height, intensity,
                   Max(2, scale * getTierSettings(r.tier).grainResolution2), "noise", seed)

\* the halftone, metal and texture placeholders: a grey overlay at the effect's opacity
iosApplyPlaceholder(r, name, opacity) ==
    Log([r EXCEPT !.canvas =
            Restore(PaintOver(SetGco(SetAlpha(Save(r.canvas), 10 * opacity), "overlay"),
                              [op |-> "placeholder", color |-> "#888", effect |-> name]))],
        [ev |-> "effect", name |-> name])

\* the conditionals of drawFrame, one per effect, in the order of the code
iosBlurStep(r, t, fx) ==
    IF Enabled(fx.blur) /\ fx.blur.strength > 0
    THEN iosApplyGlobalBlur(r, t, fx.blur)
    ELSE drawOffscreen(r)

iosGrainStep(r, t, fx, seed) ==
    IF Enabled(fx.grain) THEN iosApplyGrain(r, t, fx.grain.amount, fx.grain.size, seed) ELSE r

iosNoiseStep(r, t, fx, seed) ==
    IF Enabled(fx.noise)
    THEN iosApplyNoise(r, t, fx.noise.intensity, fx.noise.scale, seed) ELSE r

iosHalftoneStep(r, fx) ==
    IF Enabled(fx.halftone) THEN iosApplyPlaceholder(r, "halftone", fx.halftone.opacity)
    ELSE r

iosMetalStep(r, fx) ==
    IF Enabled(fx.metal) THEN iosApplyPlaceholder(r, "metal", fx.metal.opacity) ELSE r

iosTextureStep(r, fx) ==
    IF Enabled(fx.texture) THEN iosApplyPlaceholder(r, "texture", fx.texture.opacity) ELSE r

\* the rest of drawFrame after the layers were drawn on the visible surface; an exception
\* thrown there has left the frame
iosOffscreenAndEffects(r2, t, composition, seed) ==
    IF Threw(r2) THEN r2 ELSE
    LET fx == composition.globalEffects
        bg == composition.canvas.backgroundColor
        width == r2.canvas.width
        height == r2.canvas.height
        \* A. clear offscreen   B. render layers to offscreen
        r3 == fillSurface(r2, "offscreen", bg)
        r4 == iosRenderLayers(r3, composition.layers, "offscreen", width, height)
        \* C. global blur (offscreen -> main), or the plain copy
        r5 == iosBlurStep(r4, t, fx)
        \* D. the other effects on the main context
        r6 == iosGrainStep(r5, t, fx, seed)
        r7 == iosNoiseStep(r6, t, fx, seed)
        r8 == iosHalftoneStep(r7, fx)
        r9 == iosMetalStep(r8, fx)
    IN  iosTextureStep(r9, fx)

iosDrawFrame(r0, t, composition, seed) ==
    LET width == r0.canvas.width
        height == r0.canvas.height
        rS == Log(r0, [ev |-> "drawFrame", composition |-> composition,
                       width |-> width, height |-> height])
        \* clear the canvas with the background colour, render each visible layer
        r1 == fillSurface(rS, "canvas", composition.canvas.backgroundColor)
    IN  iosOffscreenAndEffects(iosRenderLayers(r1, composition.layers, "canvas", width, height),
                               t, composition, seed)

iosRender(r, t, composition, seed) ==
    iosDrawFrame([r EXCEPT !.lastComposition = composition,
                           !.log = <<[ev |-> "call", op |-> "render"]>>],
                 t, composition, seed)

iosResize(r, t, width, height, systemDpr, seed) ==
    LET constrained == getConstrainedDimensions(width, height, systemDpr)
        r1 == [r EXCEPT !.canvas = SetSize(r.canvas, constrained.width, constrained.height),
                        !.offscreen = SetSize(r.offscreen, constrained.width,
                                              constrained.height),
                        !.blurCache = invalidateBlurCache(r.blurCache),
                        !.grainCache = invalidateNoiseCache(r.grainCache),
                        !.noiseCache = invalidateNoiseCache(r.noiseCache),
                        !.log = <<[ev |-> "call", op |-> "resize"]>>]
    IN  IF r.lastComposition # Null
        THEN iosDrawFrame(r1, t, r.lastComposition, seed)
        ELSE r1

\* a destroy that schedules a frame where none is pending
rendererDestroyScheduling(r) ==
    IF r.animationFrameId # Null THEN [r EXCEPT !.animationFrameId = Null]
    ELSE [r EXCEPT !.animationFrameId = [frame |-> 1]]

\* animationFrameId is never assigned a frame id, so there is nothing to cancel
rendererDestroy(r) ==
    IF r.animationFrameId # Null THEN [r EXCEPT !.animationFrameId = Null] ELSE r

(***************************************************************************)
(* CanvasRenderer.ts                                                       *)
(***************************************************************************)
\* new CanvasRenderer(canvas); filterSupported is the result of the filter probe
CanvasRendererNew(width, height, filterSupported) ==
    [kind |-> "canvas",
     canvas |-> NewCanvas(width, height),
     offscreen |-> NewCanvas(width, height),
     animationFrameId |-> Null,
     isFilterSupported |-> filterSupported,
     blurCache |-> createBlurCache,
     grainCache |-> createNoiseCache,
     noiseCache |-> createNoiseCache,
     tier |-> "HIGH",
     lastComposition |-> Null,
     log |-> << >>]

createGradient(layer, width, height) ==
    IF layer.type \in {"linear", "radial", "mesh"} /\ AddColorStopThrows(layer.colors)
    THEN IndexSizeError
    ELSE IF layer.type = "linear"
    THEN [type |-> "linear", colors |-> layer.colors, width |-> width, height |-> height]
    ELSE IF layer.type \in {"radial", "mesh"}
    THEN [type |-> "radial", colors |-> layer.colors, width |-> width, height |-> height]
    ELSE Null

\* one of the three glow passes, i = 0, 1, 2
GlowPass(cv, filterSupported, layer, width, height, intensity, spread, i) ==
    LET cv1 == SetAlpha(cv, intensity * (3 - i))
        cv2 == IF filterSupported THEN SetFilter(cv1, spread * (i + 1)) ELSE cv1
        gradient == createGradient(layer, width, height)
    IN  IF gradient # Null
        THEN PaintOver(cv2, [op |-> "glow", id |-> layer.id, gradient |-> gradient,
                             spread |-> spread])
        ELSE cv2

\* a glow of two passes
applyGlowTwoPasses(cv, filterSupported, layer, width, height, intensity, spread) ==
    LET cv0 == SetGco(Save(cv), "screen")
        cv1 == GlowPass(cv0, filterSupported, layer, width, height, intensity, spread, 0)
        cv2 == GlowPass(cv1, filterSupported, layer, width, height, intensity, spread, 1)
    IN  Restore(cv2)

applyGlow(cv, filterSupported, layer, width, height, intensity, spread) ==
    LET cv0 == SetGco(Save(cv), "screen")
        cv1 == GlowPass(cv0, filterSupported, layer, width, height, intensity, spread, 0)
        cv2 == GlowPass(cv1, filterSupported, layer, width, height, intensity, spread, 1)
        cv3 == GlowPass(cv2, filterSupported, layer, width, height, intensity, spread, 2)
    IN  Restore(cv3)

renderLayer(r, layer, width, height) ==
    IF Skipped(layer) THEN r
    ELSE LET effects == layer.effects
             cv1 == Transform(SetAlpha(SetGco(Save(r.canvas), mapBlendMode(layer.blendMode)),
                                       10 * layer.opacity),
                              layer.transform)
             cv2 == IF Enabled(effects.blur) /\ effects.blur.radius > 0 /\ r.isFilterSupported
                    THEN SetFilter(cv1, 3 * effects.blur.radius)
                    ELSE cv1
             gradient == createGradient(layer, width, height)
             padding == IF Enabled(effects.blur) THEN effects.blur.radius * 2 ELSE 0
             cv3 == IF gradient # Null
                    THEN PaintOver(cv2, [op |-> "layer", id |-> layer.id,
                                         gradient |-> gradient, padding |-> padding])
                    ELSE cv2
             cv4 == IF Enabled(effects.glow) /\ effects.glow.intensity > 0
                    THEN applyGlow(cv3, r.isFilterSupported, layer, width, height,
                                   effects.glow.intensity, effects.glow.spread)
                    ELSE cv3
         IN  IF gradient = IndexSizeError
             THEN Log([r EXCEPT !.canvas = cv2], [ev |-> "throw"])
             ELSE Log([r EXCEPT !.canvas = Restore(cv4)],
                      [ev |-> "layer", id |-> layer.id, target |-> "canvas"])

RECURSIVE canvasRenderLayers(_, _, _, _)
canvasRenderLayers(r, layers, width, height) ==
    IF layers = << >> \/ Threw(r) THEN r
    ELSE canvasRenderLayers(IF Head(layers).visible
                            THEN renderLayer(r, Head(layers), width, height)
                            ELSE r,
                            Tail(layers), width, height)

\* the blur applied whatever the strength
applyGlobalBlurUnguarded(r, blur) ==
    Log([r EXCEPT !.canvas.content =
            <<[op |-> "blur", strength |-> blur.strength, padding |-> 0,
               native |-> r.isFilterSupported, src |-> r.canvas.content]>>],
        [ev |-> "blurEngine", strength |-> blur.strength, reused |-> FALSE])

\* the padded copy is blurred (natively or by the box blur) and drawn back with 'copy'
applyGlobalBlur(r, blur) ==
    LET r1 == Log(r, [ev |-> "effect", name |-> "blur"])
        width == r.canvas.width
        height == r.canvas.height
        padding == Min(width, Min(height, 2 * blur.strength))
    IN  IF blur.strength <= 0 THEN r1
        ELSE Log([r1 EXCEPT !.canvas.content =
                     <<[op |-> "blur", strength |-> blur.strength, padding |-> padding,
                        native |-> r.isFilterSupported, src |-> r.canvas.content]>>],
                 [ev |-> "blurEngine", strength |-> blur.strength, reused |-> FALSE])

\* a fresh random noise canvas, overlaid at alpha 0.8
applyGrain(r, amount, size, seed) ==
    Log([r EXCEPT !.canvas =
            Restore(PaintOver(SetAlpha(SetGco(Save(r.canvas), "overlay"), 800),
                              [op |-> "grain", amount |-> amount, size |-> Max(1, size),
                               seed |-> seed, effect |-> "grain"]))],
        [ev |-> "effect", name |-> "grain"])

\* getImageData / putImageData: the pixels are changed in place
applyNoise(r, intensity, scale, type, seed) ==
    Log([r EXCEPT !.canvas.content =
            Append(r.canvas.content,
                   [op |-> "noise", intensity |-> intensity, scale |-> scale, type |-> type,
                    seed |-> IF type \in {"perlin", "simplex"} THEN 0 ELSE seed,
                    effect |-> "noise"])],
        [ev |-> "effect", name |-> "noise"])

mapHalftoneBlendMode(blendMode) ==
    IF blendMode \in {"multiply", "overlay", "soft-light", "hard-light"}
    THEN blendMode ELSE "overlay"

mapMetalBlendMode(blendMode) ==
    IF blendMode \in {"overlay", "soft-light", "hard-light", "luminosity"}
    THEN blendMode ELSE "overlay"

\* a + (b - a) * t, scaled by 100 (t is in hundredths)
lerp(a, b, t) == 100 * a + (b - a) * t

\* per channel Math.round(lerp(a, b, t))
lerpColor(colorA, colorB, t) ==
    [k \in 1..3 |-> (lerp(colorA[k], colorB[k], t) + 50) \div 100]

\* every attribute taken from the nearer source
interpolateHalftoneSourcesNearest(sourceA, sourceB, t) ==
    [dotSizeRange |-> <<lerp(sourceA.dotSizeRange[1], sourceB.dotSizeRange[1], t),
                        lerp(sourceA.dotSizeRange[2], sourceB.dotSizeRange[2], t)>>,
     dotDensity |-> IF t < 50 THEN sourceA.dotDensity ELSE sourceB.dotDensity,
     contrast |-> IF t < 50 THEN sourceA.contrast ELSE sourceB.contrast,
     noiseLevel |-> IF t < 50 THEN sourceA.noiseLevel ELSE sourceB.noiseLevel,
     patternType |-> IF t < 50 THEN sourceA.patternType ELSE sourceB.patternType,
     baseColor |-> lerpColor(sourceA.baseColor, sourceB.baseColor, t),
     inkColor |-> lerpColor(sourceA.inkColor, sourceB.inkColor, t)]

\* the interpolated dot sizes are in thousandths of a pixel
interpolateHalftoneSources(sourceA, sourceB, t) ==
    [dotSizeRange |-> <<lerp(sourceA.dotSizeRange[1], sourceB.dotSizeRange[1], t),
                        lerp(sourceA.dotSizeRange[2], sourceB.dotSizeRange[2], t)>>,
     dotDensity |-> IF t < 33 THEN sourceA.dotDensity
                    ELSE IF t < 66 THEN "medium" ELSE sourceB.dotDensity,
     contrast |-> IF t < 33 THEN sourceA.contrast
                  ELSE IF t < 66 THEN "medium" ELSE sourceB.contrast,
     noiseLevel |-> IF t < 33 THEN sourceA.noiseLevel
                    ELSE IF t < 66 THEN "medium" ELSE sourceB.noiseLevel,
     patternType |-> IF t < 50 THEN sourceA.patternType ELSE sourceB.patternType,
     baseColor |-> lerpColor(sourceA.baseColor, sourceB.baseColor, t),
     inkColor |-> lerpColor(sourceA.inkColor, sourceB.inkColor, t)]

\* the dot routine applyHalftoneGradient calls
halftoneAlgorithm(gradientPosition, patternType) ==
    LET useOrderedPattern == IF gradientPosition > 50
                             THEN patternType = "ordered_halftone"
                             ELSE patternType = "stochastic_halftone"
    IN  IF useOrderedPattern \/ patternType = "ordered_halftone"
        THEN "drawOrderedHalftone" ELSE "drawStochasticHalftone"

applyHalftoneGradient(r, halftone, seed) ==
    LET interpolatedSource == interpolateHalftoneSources(halftone.sourceA, halftone.sourceB,
                                                         halftone.gradientPosition)
    IN  Log([r EXCEPT !.canvas =
                Restore(PaintOver(SetGco(SetAlpha(Save(r.canvas), 10 * halftone.opacity),
                                         mapHalftoneBlendMode(halftone.blendMode)),
                                  [op |-> "halftone", seed |-> seed, effect |-> "halftone",
                                   source |-> interpolatedSource,
                                   algorithm |-> halftoneAlgorithm(halftone.gradientPosition,
                                                     interpolatedSource.patternType)]))],
            [ev |-> "effect", name |-> "halftone"])

applyCorrugatedMetal(r, metal) ==
    Log([r EXCEPT !.canvas =
            Restore(PaintOver(SetGco(SetAlpha(Save(r.canvas), 10 * metal.opacity),
                                     mapMetalBlendMode(metal.blendMode)),
                              [op |-> "metal", effect |-> "metal"]))],
        [ev |-> "effect", name |-> "metal"])

\* globalTextures.json: the presets the switch of applyTextureEffect names
TexturePresets == {"frosted_glass_smooth_001", "brushed_metal_granular_001",
                   "rippled_water_reflective_001"}

applyTextureEffect(r, texture, seed) ==
    LET r1 == Log(r, [ev |-> "effect", name |-> "texture"])
    IN  IF texture.presetId \notin TexturePresets THEN r1
        ELSE [r1 EXCEPT !.canvas =
                 Restore(PaintOver(SetGco(SetAlpha(Save(r.canvas), 10 * texture.opacity),
                                          mapBlendMode(texture.blendMode)),
                                   [op |-> "texture", presetId |-> texture.presetId,
                                    seed |-> seed, effect |-> "texture"]))]

\* the conditionals of drawFrame, one per effect, in the order of the code
blurStep(r, fx) == IF Enabled(fx.blur) THEN applyGlobalBlur(r, fx.blur) ELSE r

grainStep(r, fx, seed) ==
    IF Enabled(fx.grain) THEN applyGrain(r, fx.grain.amount, fx.grain.size, seed) ELSE r

noiseStep(r, fx, seed) ==
    IF Enabled(fx.noise)
    THEN applyNoise(r, fx.noise.intensity, fx.noise.scale, fx.noise.type, seed) ELSE r

halftoneStep(r, fx, seed) ==
    IF Enabled(fx.halftone) THEN applyHalftoneGradient(r, fx.halftone, seed) ELSE r

metalStep(r, fx) == IF Enabled(fx.metal) THEN applyCorrugatedMetal(r, fx.metal) ELSE r

textureStep(r, fx, seed) ==
    IF Enabled(fx.texture) THEN applyTextureEffect(r, fx.texture, seed) ELSE r

\* the global effects of drawFrame, after the layers; an exception thrown by a layer has
\* left the frame
globalEffects(r2, fx, seed) ==
    IF Threw(r2) THEN r2 ELSE
    LET r3 == blurStep(r2, fx)
        r4 == grainStep(r3, fx, seed)
        r5 == noiseStep(r4, fx, seed)
        r6 == halftoneStep(r5, fx, seed)
        r7 == metalStep(r6, fx)
    IN  textureStep(r7, fx, seed)

drawFrame(r0, composition, seed) ==
    LET fx == composition.globalEffects
        width == r0.canvas.width
        height == r0.canvas.height
        rS == Log(r0, [ev |-> "drawFrame", composition |-> composition,
                       width |-> width, height |-> height])
        r1 == fillSurface(rS, "canvas", composition.canvas.backgroundColor)
    IN  globalEffects(canvasRenderLayers(r1, composition.layers, width, height), fx, seed)

canvasRender(r, composition, seed) ==
    drawFrame([r EXCEPT !.lastComposition = composition,
                        !.log = <<[ev |-> "call", op |-> "render"]>>],
              composition, seed)

\* the frame drawn before the dimensions are assigned
canvasResizeDrawFirst(r, width, height, seed) ==
    LET r1 == [r EXCEPT !.log = <<[ev |-> "call", op |-> "resize"]>>]
        r2 == IF r.lastComposition # Null THEN drawFrame(r1, r.lastComposition, seed) ELSE r1
    IN  [r2 EXCEPT !.canvas = SetSize(r2.canvas, width, height),
                   !.offscreen = SetSize(r2.offscreen, width, height)]

canvasResize(r, width, height, seed) ==
    LET r1 == [r EXCEPT !.canvas = SetSize(r.canvas, width, height),
                        !.offscreen = SetSize(r.offscreen, width, height),
                        !.log = <<[ev |-> "call", op |-> "resize"]>>]
    IN  IF r.lastComposition # Null THEN drawFrame(r1, r.lastComposition, seed) ELSE r1

\* renderer.render(composition) / renderer.resize(width, height) on whichever renderer
\* the caller holds
rendererRender(r, t, composition, seed) ==
    IF r.kind = "ios" THEN iosRender(r, t, composition, seed)
    ELSE canvasRender(r, composition, seed)

rendererResize(r, t, width, height, systemDpr, seed) ==
    IF r.kind = "ios" THEN iosResize(r, t, width, height, systemDpr, seed)
    ELSE canvasResize(r, width, height, seed)

(***************************************************************************)
(* The renderers driven by their callers                                   *)
(***************************************************************************)
NumSeeds == 2
Seeds == 1..NumSeeds

\* container.clientWidth x clientHeight, and window.devicePixelRatio
CssSizes == {<<60, 40>>, <<120, 80>>}
SystemDprs == {4, 12}
InitialSize == <<60, 40>>

Absent == [kind |-> "none"]

\* the compositions of a run: every edit of the session, or the one of a short session
\* compositions to export: a layer with blur and glow, a layer without those blocks,
\* every global effect at sizes that every scale factor keeps whole, and global effects
\* without the optional blocks; canvases with long edges of 1024, 2048 and 4096
LayerSoft ==
    [LayerRadial EXCEPT !.id = "L8",
                        !.effects.blur = [enabled |-> TRUE, radius |-> 8],
                        !.effects.glow = [enabled |-> TRUE, intensity |-> 50, spread |-> 16]]
LayerBare ==
    [LayerLinear EXCEPT !.id = "L9", !.effects.blur = Undef, !.effects.glow = Undef]
FxPlain == [FxNone EXCEPT !.grain.size = 2, !.metal.density = 200]
FxExport ==
    [FxAll(10) EXCEPT !.grain.size = 2, !.noise.scale = 48, !.metal.density = 200]
FxBare == [FxExport EXCEPT !.blur = Undef, !.texture = Undef, !.halftone = Undef]
OriginalSizes == {<<1024, 1024>>, <<2048, 1152>>, <<512, 4096>>}

\* blend modes a layer may carry: the BlendMode values, names only the iOS table holds,
\* and names no table holds
BlendInputs == BlendMode \cup {"darken", "luminosity", "difference", "plus-lighter", ""}

HalftonePatternTypes == {"stochastic_halftone", "ordered_halftone"}
\* gradient positions 0, 0.2, 0.32, 0.33, 0.5, 0.65, 0.66, 0.9 and 1
HalftonePositions == {0, 20, 32, 33, 50, 65, 66, 90, 100}

PoolOf(p) ==
    IF p = "full" THEN Compositions
    ELSE IF p = "pair" THEN {Composition("#0a0a0a", <<LayerRadial>>, FxGrain(10, 1))}
    ELSE IF p = "edit"
    THEN {Composition("#0a0a0a", << >>, FxNone),
          Composition("#0a0a0a", <<LayerOneStop>>, FxNone),
          Composition("#0a0a0a", <<LayerRadial, LayerOneStop, LayerLinear>>, FxBlur(0)),
          Composition("#ffffff", <<LayerLinear>>, FxBlur(-5)),
          Composition("#ffffff", <<LayerHidden>>, FxBlur(10)),
          Composition("#0a0a0a", <<LayerRadial>>, FxBlur(10)),
          Composition("#0a0a0a", <<LayerRadial, LayerBadStop>>, FxNone),
          Composition("#0a0a0a", <<LayerBadOpacity, LayerNegRadius>>, FxNone)}
    ELSE IF p = "load" THEN {Composition("#0a0a0a", <<LayerRadial>>, FxAll(110))}
    ELSE IF p = "export"
    THEN {[c EXCEPT !.canvas = [backgroundColor |-> c.canvas.backgroundColor,
                                width |-> size[1], height |-> size[2]]] :
             c \in {Composition("#0a0a0a", <<LayerRadial>>, FxPlain),
                    Composition("#0a0a0a", <<LayerSoft, LayerBare>>, FxExport),
                    Composition("#ffffff", <<LayerSoft>>, FxBare)},
             size \in OriginalSizes}
    ELSE IF p = "blend"
    THEN {Composition("#0a0a0a", <<[LayerRadial EXCEPT !.blendMode = b]>>, FxNone) :
             b \in BlendInputs}
    ELSE IF p = "halftone"
    THEN {Composition("#0a0a0a", << >>, FxHalftone(t, patternA, patternB)) :
             t \in HalftonePositions, patternA \in HalftonePatternTypes,
             patternB \in HalftonePatternTypes}
    ELSE {Composition("#0a0a0a", <<LayerRadial>>, FxNone),
          Composition("#ffffff", LayerStack, FxBlur(10))}

Live(i) == rs[i].kind # "none"

\* the outcomes of Math.random a frame of a composition can tell apart: a single one when
\* none of its enabled effects draws random numbers (or there is no frame to draw)
SeedsOf(c) ==
    IF c # Null /\ \E e \in {"grain", "noise", "halftone", "texture"} :
                      Enabled(c.globalEffects[e])
    THEN Seeds ELSE {1}

AppIdle == [mounted |-> FALSE]

\* the context states a run lets pile up on the visible surface's stack: every frame an
\* exception leaves has saved one that it never restores
MaxSaved == 2

\* renderer.render(composition)
Render(i) ==
    /\ Live(i)
    /\ \E c \in PoolOf(pool) : \E seed \in SeedsOf(c) :
          /\ rs' = [rs EXCEPT ![i] = rendererRender(rs[i], tex, c, seed)]
          /\ Len(rs'[i].canvas.stack) <= MaxSaved
    /\ UNCHANGED <<tex, pool, app>>

\* renderer.resize(width, height)
Resize(i) ==
    /\ Live(i)
    /\ \E size \in CssSizes, dpr \in SystemDprs, seed \in SeedsOf(rs[i].lastComposition) :
          rs' = [rs EXCEPT ![i] = rendererResize(rs[i], tex, size[1], size[2], dpr, seed)]
    /\ UNCHANGED <<tex, pool, app>>

\* renderer.destroy()
Destroy(i) ==
    /\ Live(i)
    /\ rs' = [rs EXCEPT ![i] = rendererDestroy(rs[i])]
    /\ UNCHANGED <<tex, pool, app>>

\* one renderer of either kind, constructed on a canvas sized to its container; on the
\* iOS pipeline the textures were never requested or were preloaded during start-up
Init ==
    /\ pool = "full"
    /\ app = AppIdle
    /\ \/ \E screen \in Screens :
             /\ tex \in {NoTextures, AllTextures}
             /\ rs = [i \in Instances |-> IF i = 1
                                          THEN IOSRendererNew(InitialSize[1], InitialSize[2],
                                                              screen)
                                          ELSE Absent]
       \/ \E f \in BOOLEAN :
             /\ tex = NoTextures
             /\ rs = [i \in Instances |-> IF i = 1
                                          THEN CanvasRendererNew(InitialSize[1],
                                                                 InitialSize[2], f)
                                          ELSE Absent]

Next == \E i \in Instances : Render(i) \/ Resize(i) \/ Destroy(i)

Spec == Init /\ [][Next]_vars

(***************************************************************************)
(* One renderer fed the compositions of an editing session (SpecEdit):     *)
(* empty and hidden layers, a layer left with one stop, out-of-range values *)
(***************************************************************************)
EditScreen == [width |-> 390, height |-> 844, dpr |-> 3]

InitEdit ==
    /\ pool = "edit"
    /\ app = AppIdle
    /\ tex = NoTextures
    /\ \E r \in {IOSRendererNew(InitialSize[1], InitialSize[2], EditScreen),
                 CanvasRendererNew(InitialSize[1], InitialSize[2], TRUE),
                 CanvasRendererNew(InitialSize[1], InitialSize[2], FALSE)} :
          rs = [i \in Instances |-> IF i = 1 THEN r ELSE Absent]

NextEdit == \E i \in Instances : Render(i) \/ Resize(i)

SpecEdit == InitEdit /\ [][NextEdit]_vars

(***************************************************************************)
(* textureLoader.ts: preloadTextures and the image loads it starts         *)
(***************************************************************************)
\* preloadTextures(): nothing once loaded or while a load is in flight (or has settled:
\* loading is never reset); otherwise the six image requests are started
\* the six image requests started again whenever loaded is false
preloadTexturesRestarting(t) ==
    IF t.loaded THEN t
    ELSE [t EXCEPT !.loading = "pending", !.img = [i \in Images |-> "loading"],
                   !.requests = [i \in Images |-> @[i] + 1]]

preloadTextures(t) ==
    IF t.loaded THEN t
    ELSE IF t.loading # "null" THEN t
    ELSE [t EXCEPT !.loading = "pending", !.img = [i \in Images |-> "loading"],
                   !.requests = [i \in Images |-> @[i] + 1]]

\* img.onload: the image is stored in its map; when it is the last of the six and no
\* request has failed, Promise.all resolves and loaded is set
imageLoaded(t, image) ==
    LET t1 == [t EXCEPT !.img[image] = "loaded",
                        !.grain = IF image[1] = "grain" THEN @ \cup {image[2]} ELSE @,
                        !.blur = IF image[1] = "blur" THEN @ \cup {image[2]} ELSE @]
    IN  IF t1.loading = "pending" /\ \A i \in Images : t1.img[i] = "loaded"
        THEN [t1 EXCEPT !.loaded = TRUE, !.loading = "settled"]
        ELSE t1

\* a failure that clears loading, so that a later call starts over
imageFailedRetryable(t, image) == [t EXCEPT !.img[image] = "failed", !.loading = "null"]

\* img.onerror: Promise.all rejects on the first failure, the catch logs it and the
\* loading promise settles with loaded still false
imageFailed(t, image) ==
    [t EXCEPT !.img[image] = "failed",
              !.loading = IF @ = "pending" THEN "settled" ELSE @]

\* an application start-up calls preloadTextures()
PreloadTextures ==
    /\ tex' = preloadTextures(tex)
    /\ tex' # tex
    /\ UNCHANGED <<rs, pool, app>>

ImageLoaded ==
    /\ \E image \in Images :
          /\ tex.img[image] = "loading"
          /\ tex' = imageLoaded(tex, image)
    /\ UNCHANGED <<rs, pool, app>>

\* the image requests that can fail in a run: with two renderers on the page, the one
\* asset that is served last; otherwise any of them
FlakyImages(p) == IF p = "pair" THEN {<<"blur", "heavy">>} ELSE Images

ImageFailed ==
    /\ \E image \in FlakyImages(pool) :
          /\ tex.img[image] = "loading"
          /\ tex' = imageFailed(tex, image)
    /\ UNCHANGED <<rs, pool, app>>

(***************************************************************************)
(* Two iOS renderers on one page (SpecPair): the preview and a second       *)
(* instance, with the texture loader of the module they both import        *)
(***************************************************************************)
PairScreen == [width |-> 390, height |-> 844, dpr |-> 3]

InitPair ==
    /\ pool = "pair"
    /\ app = AppIdle
    /\ tex = NoTextures
    /\ rs = [i \in Instances |-> IOSRendererNew(InitialSize[1], InitialSize[2], PairScreen)]

NextPair ==
    \/ \E i \in Instances : Render(i) \/ Resize(i) \/ Destroy(i)
    \/ PreloadTextures
    \/ ImageLoaded
    \/ ImageFailed

SpecPair == InitPair /\ [][NextPair]_vars

(***************************************************************************)
(* The texture loader called repeatedly (SpecLoad): start-up code and       *)
(* later callers call preloadTextures() while one iOS renderer draws       *)
(***************************************************************************)
MaxCalls == 3

LoadScreen == [width |-> 390, height |-> 844, dpr |-> 3]

\* await preloadTextures(), from any caller at any time
CallPreload ==
    /\ app.calls < MaxCalls
    /\ tex' = preloadTextures(tex)
    /\ app' = [app EXCEPT !.calls = @ + 1]
    /\ UNCHANGED <<rs, pool>>

InitLoad ==
    /\ pool = "load"
    /\ app = [mounted |-> FALSE, calls |-> 0]
    /\ tex = NoTextures
    /\ rs = [i \in Instances |-> IF i = 1
                                 THEN IOSRendererNew(InitialSize[1], InitialSize[2],
                                                     LoadScreen)
                                 ELSE Absent]

NextLoad ==
    \/ CallPreload
    \/ ImageLoaded
    \/ ImageFailed
    \/ \E i \in Instances : Render(i)

SpecLoad == InitLoad /\ [][NextLoad]_vars

(***************************************************************************)
(* CanvasBootstrap.tsx with the pipeline component it mounts (SpecBoot):   *)
(* IOSCanvas on iOS, GradientCanvas elsewhere, under PipelineErrorBoundary *)
(***************************************************************************)
BootScreen == [width |-> 390, height |-> 844, dpr |-> 3]

\* what can throw in a handler: the constructor (getContext('2d') returns null), a
\* render call, the frame resize draws
MountFaults == {"none", "ctor", "render"}
ResizeFaults == {"none", "resize", "render"}

\* static getDerivedStateFromError
getDerivedStateFromError(a) == [a EXCEPT !.hasError = TRUE]

\* a render that returns the children whatever the state
boundaryRenderChildren(a) == [a EXCEPT !.shown = "pipeline"]

\* PipelineErrorBoundary.render(): the fallback once hasError, else the children
boundaryRender(a) == [a EXCEPT !.shown = IF a.hasError THEN "fallback" ELSE "pipeline"]

\* an exception leaves a handler at origin: "swallowed" by the handler's own try / catch,
\* thrown from an effect and so caught by the "boundary", or thrown from a ResizeObserver
\* callback, which React does not see ("uncaught")
Thrown(a, origin, how) ==
    LET a1 == [a EXCEPT !.threw = @ \cup {origin}]
    IN  IF how = "boundary" THEN getDerivedStateFromError(a1)
        ELSE IF how = "uncaught" THEN [a1 EXCEPT !.uncaught = TRUE]
        ELSE a1

\* render(composition) that throws while drawing: lastComposition is already assigned
renderThrows(r, composition) ==
    [r EXCEPT !.lastComposition = composition,
              !.log = <<[ev |-> "call", op |-> "render"], [ev |-> "throw"]>>]

\* resize(width, height) whose frame throws: the dimensions are assigned, the caches marked
resizeThrows(r, t, width, height, systemDpr, seed) ==
    [rendererResize([r EXCEPT !.lastComposition = Null], t, width, height, systemDpr, seed)
        EXCEPT !.lastComposition = r.lastComposition,
               !.log = Append(@, [ev |-> "throw"])]

\* IOSCanvas, initialization effect: the constructor and the first render inside try / catch
iosMountEffect(a, t, composition, seed, fault) ==
    LET r0 == IOSRendererNew(InitialSize[1], InitialSize[2], BootScreen)
    IN  IF fault = "ctor"
        THEN [app |-> Thrown(a, "mount", "swallowed"), r |-> Absent]
        ELSE IF fault = "render"
        THEN [app |-> Thrown(a, "mount", "swallowed"), r |-> renderThrows(r0, composition)]
        ELSE [app |-> a, r |-> iosRender(r0, t, composition, seed)]

\* GradientCanvas, initialization effect: no try / catch
canvasMountEffect(a, composition, seed, fault) ==
    LET r0 == CanvasRendererNew(InitialSize[1], InitialSize[2], TRUE)
    IN  IF fault = "ctor"
        THEN [app |-> Thrown(a, "mount", "boundary"), r |-> Absent]
        ELSE IF fault = "render"
        THEN [app |-> Thrown(a, "mount", "boundary"), r |-> renderThrows(r0, composition)]
        ELSE [app |-> a, r |-> canvasRender(r0, composition, seed)]

\* const PipelineComponent = isIOS ? IOSCanvas : ProductionCanvas
mountEffect(a, t, composition, seed, fault) ==
    IF a.isIOS THEN iosMountEffect(a, t, composition, seed, fault)
    ELSE canvasMountEffect(a, composition, seed, fault)

\* the boundary and the pipeline component as mounted, before their effects ran
Mounted(ios, composition) ==
    [mounted |-> TRUE, isIOS |-> ios, hasError |-> FALSE, shown |-> "pipeline",
     composition |-> composition, threw |-> {}, uncaught |-> FALSE]

\* useEffect(() => { if (rendererRef.current) rendererRef.current.render(composition) })
compositionEffect(w, t, composition, seed, throws) ==
    IF w.r = Absent THEN w
    ELSE IF throws
    THEN [app |-> Thrown(w.app, "composition", "boundary"),
          r |-> renderThrows(w.r, composition)]
    ELSE [app |-> w.app, r |-> rendererRender(w.r, t, composition, seed)]

\* rendererRef.current.render(composition) after the resize, which may throw
renderAfterResize(r, t, composition, seed, fault) ==
    IF fault = "render" THEN renderThrows(r, composition)
    ELSE rendererRender(r, t, composition, seed)

\* handleResize, the ResizeObserver callback: nothing without a renderer; else resize, then
\* render(composition)
handleResize(w, t, width, height, systemDpr, seed, fault) ==
    IF w.r = Absent THEN w
    ELSE IF fault = "resize"
    THEN [app |-> Thrown(w.app, "resize", "uncaught"),
          r |-> resizeThrows(w.r, t, width, height, systemDpr, seed)]
    ELSE [app |-> IF fault = "render" THEN Thrown(w.app, "resize", "uncaught") ELSE w.app,
          r |-> renderAfterResize(rendererResize(w.r, t, width, height, systemDpr, seed),
                                  t, w.app.composition, seed, fault)]

\* after the effects of a commit the boundary renders again; with hasError the pipeline
\* component is unmounted and its cleanup drops the renderer
commit(w) ==
    LET a == boundaryRender(w.app)
    IN  IF a.hasError THEN [app |-> a, r |-> Absent] ELSE [app |-> a, r |-> w.r]

\* <CanvasBootstrap/> is mounted: isIOS picks the pipeline component, whose first commit
\* runs the initialization effect and then the composition effect
BootMount ==
    /\ ~app.mounted
    /\ \E c \in PoolOf(pool), seed \in Seeds, fault \in MountFaults, again \in BOOLEAN :
          \E w \in {commit(compositionEffect(mountEffect(Mounted(app.isIOS, c), tex, c, seed,
                                                          fault),
                                              tex, c, seed, again))} :
              /\ app' = w.app
              /\ rs' = [rs EXCEPT ![1] = w.r]
    /\ UNCHANGED <<tex, pool>>

\* the store publishes another composition: the composition effect of the pipeline
\* component runs if it is still mounted (the renderer is dropped with it otherwise)
BootCompositionChange ==
    /\ app.mounted
    /\ \E c \in PoolOf(pool) \ {app.composition}, seed \in Seeds, throws \in BOOLEAN :
          \E w \in {commit(compositionEffect([app |-> [app EXCEPT !.composition = c],
                                                r |-> rs[1]], tex, c, seed, throws))} :
              /\ app' = w.app
              /\ rs' = [rs EXCEPT ![1] = w.r]
    /\ UNCHANGED <<tex, pool>>

\* the container is resized: the ResizeObserver of the pipeline component fires if it is
\* still mounted (it is disconnected with it otherwise)
BootResize ==
    /\ app.mounted
    /\ \E size \in CssSizes, dpr \in SystemDprs, seed \in Seeds, fault \in ResizeFaults :
          \E w \in {handleResize([app |-> app, r |-> rs[1]], tex, size[1], size[2], dpr,
                                   seed, fault)} :
              /\ app' = w.app
              /\ rs' = [rs EXCEPT ![1] = w.r]
    /\ UNCHANGED <<tex, pool>>

\* the parent renders again: the boundary renders from its state
BootRerender ==
    /\ app.mounted
    /\ app' = boundaryRender(app)
    /\ UNCHANGED <<rs, tex, pool>>

\* <CanvasBootstrap/> is unmounted: the cleanup destroys the renderer and drops it
BootUnmount ==
    /\ app.mounted
    /\ app' = [mounted |-> FALSE, isIOS |-> app.isIOS]
    /\ rs' = [rs EXCEPT ![1] = Absent]
    /\ UNCHANGED <<tex, pool>>

InitBoot ==
    /\ pool = "boot"
    /\ tex = NoTextures
    /\ rs = [i \in Instances |-> Absent]
    /\ \E ios \in BOOLEAN : app = [mounted |-> FALSE, isIOS |-> ios]

NextBoot == BootMount \/ BootCompositionChange \/ BootResize \/ BootRerender \/ BootUnmount

SpecBoot == InitBoot /\ [][NextBoot]_vars

(***************************************************************************)
(* Properties of one renderer (Spec)                                       *)
(***************************************************************************)
IOS(i) == rs[i].kind = "ios"
Rendered(i) == Live(i) /\ rs[i].lastComposition # Null
CalledResize(i) == Live(i) /\ rs[i].log # << >> /\ rs[i].log[1].op = "resize"

\* the background fill and the layers a surface shows, under the copies and blurs made of them
RECURSIVE BaseOf(_)
BaseOf(content) ==
    IF content = << >> THEN << >>
    ELSE IF content[1].op \in {"image", "blur"} THEN BaseOf(content[1].src)
    ELSE SelectSeq(content, LAMBDA o : o.op \in {"fill", "layer"})

ShownBackground(content) ==
    LET base == BaseOf(content)
    IN  IF base # << >> /\ base[1].op = "fill" THEN base[1].color ELSE "none"

ShownLayers(content) ==
    LET painted == SelectSeq(BaseOf(content), LAMBDA o : o.op = "layer")
    IN  [k \in DOMAIN painted |-> painted[k].id]

\* the layers a frame of a composition paints: the visible ones with two colour stops or more
RECURSIVE Drawable(_)
Drawable(layers) ==
    IF layers = << >> THEN << >>
    ELSE (IF Head(layers).visible /\ Len(Head(layers).colors) >= 2
          THEN <<Head(layers).id>> ELSE << >>) \o Drawable(Tail(layers))

\* C1: after render(c) the visible surface shows the background and the layers of c, in c's
\* order, and nothing of a composition rendered earlier; on either renderer, also when the
\* global blur stays enabled at the same strength.
C1_ShowsLastComposition ==
    \A i \in Instances :
        Rendered(i) =>
            /\ ShownBackground(rs[i].canvas.content)
                   = rs[i].lastComposition.canvas.backgroundColor
            /\ ShownLayers(rs[i].canvas.content) = Drawable(rs[i].lastComposition.layers)

EffectOrder == <<"blur", "grain", "noise", "halftone", "metal", "texture">>
EffectNames == {EffectOrder[k] : k \in DOMAIN EffectOrder}
Rank(name) == CHOOSE k \in DOMAIN EffectOrder : EffectOrder[k] = name

\* the global effects that left a mark on a surface
Touched(content) ==
    {content[k].effect : k \in {j \in DOMAIN content : "effect" \in DOMAIN content[j]}}
        \cup (IF content # << >> /\ content[1].op \in {"image", "blur"} THEN {"blur"} ELSE {})

\* C2: in a frame the global effects run in the order blur, grain, noise, halftone, metal,
\* texture, after every layer; an effect runs only if its block is defined and enabled, an
\* enabled one does run, and a skipped one leaves no mark on the surface.
C2_EffectOrder ==
    \A i \in Instances :
        Rendered(i) =>
            LET fx == rs[i].lastComposition.globalEffects
                log == rs[i].log
                on(n) == fx[n] # Undef /\ fx[n].enabled
            IN  /\ \A j, k \in DOMAIN log :
                       (j < k /\ log[j].ev = "effect" /\ log[k].ev = "effect")
                           => Rank(log[j].name) < Rank(log[k].name)
                /\ \A j, k \in DOMAIN log :
                       (log[j].ev = "effect" /\ log[k].ev = "layer") => k < j
                /\ \A j \in DOMAIN log : log[j].ev = "effect" => on(log[j].name)
                /\ \A n \in EffectNames :
                       (on(n) /\ (n = "blur" => fx.blur.strength > 0))
                           => \E j \in DOMAIN log : log[j].ev = "effect" /\ log[j].name = n
                /\ Touched(rs[i].canvas.content) \subseteq {n \in EffectNames : on(n)}

\* a frame that drew layers and then ran all six effects
C2_Witness ==
    \E i \in Instances :
        /\ Rendered(i)
        /\ SelectSeq(rs[i].log, LAMBDA e : e.ev = "effect")
               = [k \in DOMAIN EffectOrder |-> [ev |-> "effect", name |-> EffectOrder[k]]]
        /\ \E k \in DOMAIN rs[i].log : rs[i].log[k].ev = "layer"

\* C5: the iOS renderer draws layers on the offscreen buffer only, never on the visible
\* surface.
C5_LayersOffscreenOnly ==
    \A i \in Instances :
        (Live(i) /\ IOS(i)) =>
            \A k \in DOMAIN rs[i].log :
                rs[i].log[k].ev = "layer" => rs[i].log[k].target = "offscreen"

\* C6: resize draws one frame of the last rendered composition, at the new dimensions of
\* the surface and of the offscreen buffer, and draws nothing when render was never called.
C6_ResizeRerenders ==
    \A i \in Instances :
        CalledResize(i) =>
            LET r == rs[i]
            IN  IF r.lastComposition # Null
                THEN /\ Len(r.log) >= 2
                     /\ r.log[2] = [ev |-> "drawFrame", composition |-> r.lastComposition,
                                    width |-> r.canvas.width, height |-> r.canvas.height]
                     /\ \A k \in DOMAIN r.log : r.log[k].ev = "drawFrame" => k = 2
                     /\ r.offscreen.width = r.canvas.width
                     /\ r.offscreen.height = r.canvas.height
                     /\ ShownBackground(r.canvas.content)
                            = r.lastComposition.canvas.backgroundColor
                ELSE /\ Len(r.log) = 1
                     /\ r.canvas.content = << >>

\* a resize to other dimensions that redrew the composition
C6_Witness ==
    \E i \in Instances :
        /\ CalledResize(i)
        /\ Rendered(i)
        /\ rs[i].canvas.width # InitialSize[1]
        /\ rs[i].canvas.content # << >>

\* a resize before any render
C6_WitnessNoFrame ==
    \E i \in Instances : CalledResize(i) /\ ~Rendered(i)

\* C7: on iOS no call draws a cached buffer made for other dimensions, and the resize call
\* itself never reuses a cache: the blur buffer is reused only at the strength and for
\* the surface size it was generated for, a noise buffer only at the surface size.
C7_NoStaleCacheAfterResize ==
    \A i \in Instances :
        (Live(i) /\ IOS(i)) =>
            LET r == rs[i]
                log == r.log
            IN  /\ \A k \in DOMAIN log :
                       (log[k].ev = "blurEngine" /\ log[k].reused) =>
                           /\ log[1].op # "resize"
                           /\ r.blurCache.strength = log[k].strength
                           /\ r.blurCache.buffer.width
                                  = Max(16, Downscaled(r.canvas.width, log[k].strength))
                           /\ r.blurCache.buffer.height
                                  = Max(16, Downscaled(r.canvas.height, log[k].strength))
                           /\ r.blurCache.buffer.content[1].w = r.canvas.width
                           /\ r.blurCache.buffer.content[1].h = r.canvas.height
                /\ \A k \in DOMAIN log :
                       (log[k].ev = "noise" /\ ~log[k].generated) =>
                           /\ log[1].op # "resize"
                           /\ r[log[k].cache].buffer.width = r.canvas.width
                           /\ r[log[k].cache].buffer.height = r.canvas.height
                /\ (CalledResize(i) /\ ~Rendered(i)) =>
                       ~r.blurCache.isValid /\ ~r.grainCache.isValid /\ ~r.noiseCache.isValid

\* a resized renderer that reuses the blur buffer it regenerated after the resize
C7_Witness ==
    \E i \in Instances :
        /\ Live(i) /\ IOS(i)
        /\ rs[i].canvas.width # InitialSize[1]
        /\ \E k \in DOMAIN rs[i].log :
               rs[i].log[k].ev = "blurEngine" /\ rs[i].log[k].reused

\* the signature applyGrain / applyNoise pass for the frame just drawn
Signature(r, which) ==
    LET fx == r.lastComposition.globalEffects
        res2 == CASE r.tier = "LOW" -> 4 [] r.tier = "MEDIUM" -> 3 [] r.tier = "HIGH" -> 2
    IN  IF which = "grainCache"
        THEN <<r.canvas.width, r.canvas.height, fx.grain.amount,
               Max(2, fx.grain.size * res2), "grain">>
        ELSE <<r.canvas.width, r.canvas.height, fx.noise.intensity,
               Max(2, fx.noise.scale * res2), "noise">>

NoiseCachedStep(i) ==
    LET log == rs'[i].log
    IN  \A k \in DOMAIN log :
            log[k].ev = "noise" =>
                LET pre == rs[i][log[k].cache]
                    post == rs'[i][log[k].cache]
                    invalidated == ~pre.isValid \/ pre.buffer = Null \/ log[1].op = "resize"
                IN  /\ post.params = Signature(rs'[i], log[k].cache)
                    /\ log[k].generated <=> (invalidated \/ pre.params # post.params)
                    /\ ~log[k].generated => post.buffer = pre.buffer

\* C8: without loaded textures, a call of the iOS renderer generates the procedural grain
\* or noise buffer exactly when the cache was invalid (never filled, or the call is a
\* resize) or the signature (width, height, intensity, scale, type) differs from the
\* cached one; otherwise it draws the buffer it had.
C8_NoiseRegeneration ==
    [][\A i \in Instances :
           (Live(i) /\ IOS(i) /\ ~areTexturesLoaded(tex) /\ rs'[i] # rs[i])
               => NoiseCachedStep(i)]_vars

\* a frame that drew the cached grain or noise buffer without generating it
C8_Witness ==
    \E i \in Instances :
        /\ Live(i) /\ IOS(i) /\ ~areTexturesLoaded(tex)
        /\ \E k \in DOMAIN rs[i].log :
               rs[i].log[k].ev = "noise" /\ ~rs[i].log[k].generated

BlurCap(tier) == CASE tier = "LOW" -> 20 [] tier = "MEDIUM" -> 50 [] tier = "HIGH" -> 100

\* C9: on iOS the strength handed to the blur engine is min(requested, cap of the tier),
\* with caps 20, 50, 100 for LOW, MEDIUM, HIGH, for every frame with an enabled blur of
\* positive strength.
C9_BlurClamped ==
    \A i \in Instances :
        (Rendered(i) /\ IOS(i)) =>
            LET blur == rs[i].lastComposition.globalEffects.blur
                log == rs[i].log
                engine == {k \in DOMAIN log : log[k].ev = "blurEngine"}
            IN  /\ \A k \in engine :
                       log[k].strength = Min(blur.strength, BlurCap(rs[i].tier))
                /\ (blur # Undef /\ blur.enabled /\ blur.strength > 0) => engine # {}

\* a frame whose requested strength is above the cap of the tier
C9_Witness ==
    \E i \in Instances :
        /\ Rendered(i) /\ IOS(i)
        /\ \E k \in DOMAIN rs[i].log :
               /\ rs[i].log[k].ev = "blurEngine"
               /\ rs[i].log[k].strength = BlurCap(rs[i].tier)
               /\ rs[i].log[k].strength < rs[i].lastComposition.globalEffects.blur.strength

(***************************************************************************)
(* Properties of the bootstrap (SpecBoot)                                  *)
(***************************************************************************)
\* C3: once the constructor or a render call has thrown in a handler of the mounted pipeline
\* (mount effect, composition effect or resize callback), the boundary has recorded the error
\* and shows the static fallback.
C3_ThrowShowsFallback ==
    (app.mounted /\ app.threw # {}) => (app.hasError /\ app.shown = "fallback")

\* C4: once hasError is recorded the fallback is shown and the renderer is gone, and every
\* later step of the mounted instance (composition change, resize, re-render) keeps it so.
C4_FallbackOneWay ==
    [][(app.mounted /\ app.hasError) =>
          /\ app.shown = "fallback"
          /\ rs[1] = Absent
          /\ app'.mounted => (app'.hasError /\ app'.shown = "fallback" /\ rs'[1] = Absent)]_vars

\* the fallback engaged by a throw of the composition effect, with the renderer dropped
C4_Witness ==
    /\ app.mounted /\ app.hasError /\ app.shown = "fallback"
    /\ "composition" \in app.threw
    /\ rs[1] = Absent

(***************************************************************************)
(* Properties of two renderers on one page (SpecPair)                      *)
(***************************************************************************)
\* does render(c) on this renderer tile a pre-rendered asset?
UsesAssets(r, t, c) ==
    \E k \in DOMAIN iosRender(r, t, c, 1).log : iosRender(r, t, c, 1).log[k].ev = "tile"

\* C10: a step that leaves an instance's own fields alone (an operation on or for the other
\* instance, texture loads included) leaves that instance's choice between asset tiling and
\* procedural generation unchanged, for every composition it may render next.
C10_InstancesIndependent ==
    [][\A j \in Instances :
          (Live(j) /\ rs'[j] = rs[j] /\ tex' # tex) =>
              \A c \in PoolOf(pool) : UsesAssets(rs[j], tex', c) = UsesAssets(rs[j], tex, c)]_vars

(***************************************************************************)
(* Properties of the texture loader (SpecLoad)                             *)
(***************************************************************************)
\* C11: a preloadTextures call made while a load is in progress, or after it settled or
\* completed, changes nothing in the texture cache and starts no image request, and no
\* image is ever requested more than once.
C11_PreloadIdempotent ==
    [][/\ (app'.calls # app.calls /\ (tex.loaded \/ tex.loading # "null")) => tex' = tex
       /\ \A image \in Images : tex'.requests[image] <= 1]_vars

\* a second and a third call were made while the first load is still in progress
C11_Witness ==
    /\ app.calls = MaxCalls
    /\ tex.loading = "pending"
    /\ \E image \in Images : tex.img[image] = "loading"

\* C12: once an image request has failed, loaded stays false, no step starts another
\* request, and a call of the renderer tiles no texture: its grain, noise and blur are the
\* procedural ones, whichever textures did load.
C12_FailurePermanent ==
    [][(\E image \in Images : tex.img[image] = "failed") =>
          /\ ~areTexturesLoaded(tex')
          /\ tex'.requests = tex.requests
          /\ \A image \in Images : tex.img[image] = "failed" => tex'.img[image] = "failed"
          /\ rs'[1] # rs[1] =>
                 /\ \A k \in DOMAIN rs'[1].log : rs'[1].log[k].ev # "tile"
                 /\ {"blurEngine", "noise"} \subseteq
                        {rs'[1].log[k].ev : k \in DOMAIN rs'[1].log}]_vars

\* a frame drawn after one request failed, with the grain and blur textures it would
\* have tiled loaded, and preloadTextures called again since
C12_Witness ==
    /\ \E image \in Images : tex.img[image] = "failed"
    /\ <<"grain", "medium">> \in {i \in Images : tex.img[i] = "loaded"}
    /\ "heavy" \in tex.blur
    /\ app.calls = MaxCalls
    /\ \E k \in DOMAIN rs[1].log : rs[1].log[k].ev = "noise"

(***************************************************************************)
(* Properties of a renderer in an editing session (SpecEdit)               *)
(***************************************************************************)
\* the paints on a surface that carry a context state
StatePaints(content) == {k \in DOMAIN content : "st" \in DOMAIN content[k]}

\* C13: no call of a renderer ends with an exception, and no paint on the visible surface
\* carries an alpha outside [0, 1] or a negative blur padding, whatever the layers hold.
C13_MalformedHandled ==
    \A i \in Instances :
        Live(i) =>
            /\ \A k \in DOMAIN rs[i].log : rs[i].log[k].ev # "throw"
            /\ \A k \in StatePaints(rs[i].canvas.content) :
                   LET paint == rs[i].canvas.content[k]
                   IN  /\ paint.st.alpha \in 0..1000
                       /\ "padding" \in DOMAIN paint => paint.padding >= 0

\* a composition without its layers of fewer than 2 colour stops
Strip(c) == [c EXCEPT !.layers = SelectSeq(@, LAMBDA l : Len(l.colors) >= 2)]

\* the layers of a composition that are visible and have fewer than 2 colour stops
Degenerate(c) == {k \in DOMAIN c.layers : c.layers[k].visible /\ Len(c.layers[k].colors) < 2}

\* C14: a render call leaves both surfaces exactly as the same call would with the layers
\* of fewer than 2 colour stops removed from the composition, and draws no such layer.
C14_FewStopsNoOp ==
    [][\A i \in Instances :
          (Live(i) /\ rs'[i] # rs[i] /\ rs'[i].log[1].op = "render") =>
              LET c == rs'[i].lastComposition
              IN  /\ \E seed \in SeedsOf(c) :
                         LET without == rendererRender(rs[i], tex, Strip(c), seed)
                         IN  /\ rs'[i].canvas = without.canvas
                             /\ rs'[i].offscreen = without.offscreen
                  /\ \A k \in DOMAIN rs'[i].log :
                         rs'[i].log[k].ev = "layer" =>
                             \E j \in DOMAIN c.layers \ Degenerate(c) :
                                 c.layers[j].id = rs'[i].log[k].id]_vars

\* a frame of a composition that holds a one-stop layer between two layers that are drawn
C14_Witness ==
    \E i \in Instances :
        /\ Rendered(i)
        /\ Degenerate(rs[i].lastComposition) # {}
        /\ rs[i].log[1].op = "render"
        /\ Cardinality({k \in DOMAIN rs[i].log :
                           rs[i].log[k].ev = "layer" /\ rs[i].log[k].target = "canvas"}) = 2

\* the colour of a surface that shows one colour only: a single opaque fill, or a scaled
\* copy or a blur of such a surface; "none" for any other content
RECURSIVE UniformOf(_)
UniformOf(content) ==
    IF Len(content) # 1 \/ "st" \in DOMAIN content[1] THEN "none"
    ELSE IF content[1].op = "fill" THEN content[1].color
    ELSE IF content[1].op \in {"image", "blur"} THEN UniformOf(content[1].src)
    ELSE "none"

NoVisibleLayer(c) == \A k \in DOMAIN c.layers : ~c.layers[k].visible

\* C15: after a frame of a composition without visible layers (and with no global effect
\* but blur) the visible surface is uniformly the background colour of that composition.
C15_BackgroundOnly ==
    \A i \in Instances :
        (Rendered(i) /\ ~Threw(rs[i]) /\ NoVisibleLayer(rs[i].lastComposition)) =>
            UniformOf(rs[i].canvas.content) = rs[i].lastComposition.canvas.backgroundColor

\* a composition with its global blur switched off
BlurOff(c) == [c EXCEPT !.globalEffects.blur.enabled = FALSE]

\* C16: a render call with the global blur enabled at a strength <= 0 leaves both surfaces
\* exactly as the same call with the blur disabled: the visible surface holds the
\* composited layers themselves, not a blurred, padded or rescaled copy, and the blur
\* engine is not run.
C16_ZeroBlurIdentity ==
    [][\A i \in Instances :
          (/\ Live(i) /\ rs'[i] # rs[i] /\ rs'[i].log[1].op = "render"
           /\ Enabled(rs'[i].lastComposition.globalEffects.blur)
           /\ rs'[i].lastComposition.globalEffects.blur.strength <= 0) =>
              LET c == rs'[i].lastComposition
                  off == rendererRender(rs[i], tex, BlurOff(c), 1)
              IN  /\ rs'[i].canvas = off.canvas
                  /\ rs'[i].offscreen = off.offscreen
                  /\ \A k \in DOMAIN rs'[i].canvas.content :
                         rs'[i].canvas.content[k].op \notin {"blur", "image"}
                  /\ \A k \in DOMAIN rs'[i].log : rs'[i].log[k].ev # "blurEngine"]_vars

\* frames with layers drawn under an enabled blur of strength 0, on the iOS renderer and
\* on a CanvasRenderer without filter support (its box-blur path)
C16_Witness ==
    \E i \in Instances :
        /\ Rendered(i) /\ ~Threw(rs[i])
        /\ Enabled(rs[i].lastComposition.globalEffects.blur)
        /\ rs[i].lastComposition.globalEffects.blur.strength <= 0
        /\ ~rs[i].isFilterSupported
        /\ ShownLayers(rs[i].canvas.content) # << >>

\* ---------------------------------------------------------------------------------
\* CanvasRenderer's fallback blur on pixel data.  A surface is its RGBA bytes, indexed
\* from 0 as in ImageData.data; lengths that the code may hold as fractions (the radius,
\* the loop counter, the clamped column or row) are kept in quarters of a pixel.
\* ---------------------------------------------------------------------------------
BlurColours == {<<10, 10, 10, 255>>, <<255, 255, 255, 255>>, <<255, 128, 0, 255>>}
BlurSizes == {1, 2, 3}
\* strengths 0.5, 1, 1.25, 1.5 and 2 px
BlurStrengths4 == {2, 4, 5, 6, 8}

\* ctx.fillRect over the whole surface with an opaque colour
UniformPixels(w, h, colour) == [p \in 0..(4 * w * h - 1) |-> colour[(p % 4) + 1]]

\* a padded copy whose padding stays transparent black
PadEdgesBlank(px, width, height, padding) ==
    LET tW == width + 2 * padding
        tH == height + 2 * padding
    IN  [p \in 0..(4 * tW * tH - 1) |->
            LET x == ((p \div 4) % tW) - padding
                y == ((p \div 4) \div tW) - padding
            IN  IF x \in 0..(width - 1) /\ y \in 0..(height - 1)
                THEN px[4 * (y * width + x) + (p % 4)] ELSE 0]

\* the padded copy with the edges replicated into the padding
PadEdges(px, width, height, padding) ==
    LET tW == width + 2 * padding
        tH == height + 2 * padding
    IN  [p \in 0..(4 * tW * tH - 1) |->
            LET x == Min(width - 1, Max(0, ((p \div 4) % tW) - padding))
                y == Min(height - 1, Max(0, ((p \div 4) \div tW) - padding))
            IN  px[4 * (y * width + x) + (p % 4)]]

\* a store into a Uint8ClampedArray of Math.round(val * iarr), iarr = 1 / (r * 2 + 1)
RoundClamped(val, r4) == Min(255, Max(0, (4 * val + r4 + 2) \div (2 * r4 + 4)))

\* Math.min(n - 1, Math.max(0, k)), in quarters
ClampIdx4(n, k4) == Min(4 * (n - 1), Max(0, k4))

\* a window that slides in the sample at j + r instead of the one at j + r + 1
RECURSIVE WindowHShort(_, _, _, _, _, _)
WindowHShort(scl, w, ti, r4, j, c) ==
    IF j = 0
    THEN LET RECURSIVE Preload(_)
             Preload(j4) == IF j4 > r4 THEN 0
                            ELSE scl[4 * ti + ClampIdx4(w, j4) + c] + Preload(j4 + 4)
         IN  Preload(-r4)
    ELSE WindowHShort(scl, w, ti, r4, j - 1, c)
            - scl[4 * ti + ClampIdx4(w, 4 * (j - 1) - r4) + c]
            + scl[4 * ti + ClampIdx4(w, 4 * (j - 1) + r4) + c]

\* the window sum of channel c when column j of the row starting at pixel ti is written
RECURSIVE WindowH(_, _, _, _, _, _)
WindowH(scl, w, ti, r4, j, c) ==
    IF j = 0
    THEN LET RECURSIVE Preload(_)
             Preload(j4) == IF j4 > r4 THEN 0
                            ELSE scl[4 * ti + ClampIdx4(w, j4) + c] + Preload(j4 + 4)
         IN  Preload(-r4)
    ELSE WindowH(scl, w, ti, r4, j - 1, c)
            - scl[4 * ti + ClampIdx4(w, 4 * (j - 1) - r4) + c]
            + scl[4 * ti + ClampIdx4(w, 4 * (j - 1) + r4 + 4) + c]

boxBlurH_fast(scl, w, h, r4) ==
    [p \in 0..(4 * w * h - 1) |->
        RoundClamped(WindowH(scl, w, ((p \div 4) \div w) * w, r4, (p \div 4) % w, p % 4), r4)]

\* the window sum of channel c when row j of column i is written
RECURSIVE WindowV(_, _, _, _, _, _, _)
WindowV(scl, w, h, i, r4, j, c) ==
    IF j = 0
    THEN LET RECURSIVE Preload(_)
             Preload(j4) == IF j4 > r4 THEN 0
                            ELSE scl[ClampIdx4(h, j4) * w + 4 * i + c] + Preload(j4 + 4)
         IN  Preload(-r4)
    ELSE WindowV(scl, w, h, i, r4, j - 1, c)
            - scl[ClampIdx4(h, 4 * (j - 1) - r4) * w + 4 * i + c]
            + scl[ClampIdx4(h, 4 * (j - 1) + r4 + 4) * w + 4 * i + c]

boxBlurV_fast(scl, w, h, r4) ==
    [p \in 0..(4 * w * h - 1) |->
        RoundClamped(WindowV(scl, w, h, (p \div 4) % w, r4, (p \div 4) \div w, p % 4), r4)]

\* applyGlobalBlur without filter support, up to the call of the blur: the padded copy and
\* its pixel data; stackBlurCanvasRGBA returns at once below a radius of 1
BlurBegin ==
    /\ app.phase = "filled"
    /\ LET padding == Min(app.width, Min(app.height, (app.r4 + 1) \div 2))
           data == PadEdges(app.canvas, app.width, app.height, padding)
       IN  app' = [app EXCEPT !.phase = IF app.r4 < 4 THEN "blurred" ELSE "H",
                              !.padding = padding,
                              !.px = data, !.tmp = data]
    /\ UNCHANGED <<rs, tex, pool>>

\* stackBlurCanvasRGBA_Fast: the horizontal half of a pass, tmp into px
BlurPassH ==
    /\ app.phase = "H"
    /\ app' = [app EXCEPT !.phase = "V",
                          !.px = boxBlurH_fast(app.tmp, app.width + 2 * app.padding,
                                               app.height + 2 * app.padding, app.r4)]
    /\ UNCHANGED <<rs, tex, pool>>

\* the vertical half, px into tmp; after the third pass px.set(tmp)
BlurPassV ==
    /\ app.phase = "V"
    /\ LET out == boxBlurV_fast(app.px, app.width + 2 * app.padding,
                                app.height + 2 * app.padding, app.r4)
       IN  app' = [app EXCEPT !.phase = IF app.pass = 3 THEN "blurred" ELSE "H",
                              !.pass = IF app.pass = 3 THEN 3 ELSE app.pass + 1,
                              !.tmp = out,
                              !.px = IF app.pass = 3 THEN out ELSE app.px]
    /\ UNCHANGED <<rs, tex, pool>>

\* putImageData and ctx.drawImage(tempCanvas, -padding, -padding) under 'copy'
BlurDrawBack ==
    /\ app.phase = "blurred"
    /\ LET tW == app.width + 2 * app.padding
       IN  app' = [app EXCEPT !.phase = "done",
                              !.canvas = [p \in 0..(4 * app.width * app.height - 1) |->
                                  app.px[4 * ((((p \div 4) \div app.width) + app.padding) * tW
                                              + ((p \div 4) % app.width) + app.padding)
                                         + (p % 4)]]]
    /\ UNCHANGED <<rs, tex, pool>>

InitBlur ==
    /\ rs = [i \in Instances |-> Absent]
    /\ tex = NoTextures
    /\ pool = "boot"
    /\ \E width \in BlurSizes, height \in BlurSizes, colour \in BlurColours,
          r4 \in BlurStrengths4 :
          app = [phase |-> "filled", width |-> width, height |-> height,
                 colour |-> colour, r4 |-> r4, padding |-> 0, pass |-> 1,
                 canvas |-> UniformPixels(width, height, colour),
                 px |-> << >>, tmp |-> << >>]

NextBlur == BlurBegin \/ BlurPassH \/ BlurPassV \/ BlurDrawBack

SpecBlur == InitBlur /\ [][NextBlur]_vars

\* C17: once the fallback blur has been drawn back, a surface that was uniformly one colour
\* is uniformly that same colour, whatever the strength and the size.
C17_UniformFixedPoint ==
    app.phase = "done" => app.canvas = UniformPixels(app.width, app.height, app.colour)

\* the fallback blur preserves the colour at whole-pixel strengths
C17_WholeStrengths ==
    (app.phase = "done" /\ app.r4 % 4 = 0) =>
        app.canvas = UniformPixels(app.width, app.height, app.colour)

(***************************************************************************)
(* A CanvasRenderer fed compositions whose only effect is the halftone      *)
(* overlay, at every position and pattern type (SpecHalftone)               *)
(***************************************************************************)
InitHalftone ==
    /\ pool = "halftone"
    /\ app = AppIdle
    /\ tex = NoTextures
    /\ rs = [i \in Instances |-> IF i = 1
                                 THEN CanvasRendererNew(InitialSize[1], InitialSize[2], TRUE)
                                 ELSE Absent]

NextHalftone == \E i \in Instances : Render(i) \/ Resize(i)

SpecHalftone == InitHalftone /\ [][NextHalftone]_vars

\* the halftone overlays painted on a surface
HalftonePaints(content) == {k \in DOMAIN content : content[k].op = "halftone"}

\* C18: the interpolated source of a halftone overlay has sourceA's density, contrast and
\* noise level below position 0.33 (so at 0), 'medium' from 0.33 up to 0.66 (so at 0.5)
\* and sourceB's from 0.66 on (so at 1).
C18_BucketsStep ==
    \A i \in Instances : (Rendered(i) /\ Enabled(rs[i].lastComposition.globalEffects.halftone)) =>
        LET h == rs[i].lastComposition.globalEffects.halftone
            t == h.gradientPosition
        IN  \A k \in HalftonePaints(rs[i].canvas.content) :
              \A attr \in {"dotDensity", "contrast", "noiseLevel"} :
                 rs[i].canvas.content[k].source[attr] =
                    IF t < 33 THEN h.sourceA[attr]
                    ELSE IF t < 66 THEN "medium" ELSE h.sourceB[attr]

\* an overlay at position 0.5 whose sources both differ from 'medium' in density
C18_Witness ==
    \E i \in Instances :
        /\ Rendered(i) /\ Enabled(rs[i].lastComposition.globalEffects.halftone)
        /\ rs[i].lastComposition.globalEffects.halftone.gradientPosition = 50
        /\ \E k \in HalftonePaints(rs[i].canvas.content) :
              /\ rs[i].canvas.content[k].source.dotDensity = "medium"
              /\ rs[i].lastComposition.globalEffects.halftone.sourceA.dotDensity = "low"
              /\ rs[i].lastComposition.globalEffects.halftone.sourceB.dotDensity = "high"

\* C19: the dot routine that draws a halftone overlay is the one its interpolated pattern
\* type names: sourceA's type below position 0.5, sourceB's from 0.5 on.
C19_AlgorithmFollowsPattern ==
    \A i \in Instances : (Rendered(i) /\ Enabled(rs[i].lastComposition.globalEffects.halftone)) =>
        LET h == rs[i].lastComposition.globalEffects.halftone
            named == IF h.gradientPosition < 50 THEN h.sourceA.patternType
                     ELSE h.sourceB.patternType
        IN  \A k \in HalftonePaints(rs[i].canvas.content) :
               rs[i].canvas.content[k].algorithm =
                  IF named = "ordered_halftone" THEN "drawOrderedHalftone"
                  ELSE "drawStochasticHalftone"

(***************************************************************************)
(* ExportService.exportImage (SpecExport)                                  *)
(***************************************************************************)
ImageResolutions == {"2k", "4k", "8k"}
AspectRatios == {"square", "16:9", "9:16"}

RESOLUTIONS ==
    [resolution \in ImageResolutions |->
        IF resolution = "2k" THEN 2048 ELSE IF resolution = "4k" THEN 4096 ELSE 8192]

ASPECT_RATIOS ==
    [aspectRatio \in AspectRatios |->
        IF aspectRatio = "square" THEN [width |-> 1, height |-> 1]
        ELSE IF aspectRatio = "16:9" THEN [width |-> 16, height |-> 9]
        ELSE [width |-> 9, height |-> 16]]

\* Math.round(baseSize * (a / b))
RoundRatio(baseSize, a, b) == (2 * baseSize * a + b) \div (2 * b)

exportDimensions(resolution, aspectRatio) ==
    LET baseSize == RESOLUTIONS[resolution]
        ratio == ASPECT_RATIOS[aspectRatio]
    IN  IF ratio.width >= ratio.height
        THEN [width |-> baseSize, height |-> RoundRatio(baseSize, ratio.height, ratio.width)]
        ELSE [width |-> RoundRatio(baseSize, ratio.width, ratio.height), height |-> baseSize]

\* value * scaleFactor and value / scaleFactor, scaleFactor = exportSize / originalSize
Times(value, exportSize, originalSize) == (value * exportSize) \div originalSize
Over(value, exportSize, originalSize) == (value * originalSize) \div exportSize

scaledLayers(layers, exportSize, originalSize) ==
    [k \in DOMAIN layers |->
        [layers[k] EXCEPT
            !.effects.blur =
                IF layers[k].effects.blur # Undef
                THEN [layers[k].effects.blur EXCEPT
                         !.radius = Times(@, exportSize, originalSize)]
                ELSE Undef,
            !.effects.glow =
                IF layers[k].effects.glow # Undef
                THEN [layers[k].effects.glow EXCEPT
                         !.spread = Times(@, exportSize, originalSize)]
                ELSE Undef]]

\* the halftone block exportImage substitutes for a missing one
ExportHalftoneDefault ==
    [enabled |-> FALSE,
     gradientPosition |-> 50,
     sourceA |-> [dotSizeRange |-> <<20, 80>>, dotDensity |-> "medium",
                  contrast |-> "medium", noiseLevel |-> "medium",
                  patternType |-> "ordered_halftone",
                  baseColor |-> <<255, 255, 255>>, inkColor |-> <<0, 0, 0>>],
     sourceB |-> [dotSizeRange |-> <<40, 120>>, dotDensity |-> "medium",
                  contrast |-> "medium", noiseLevel |-> "medium",
                  patternType |-> "stochastic_halftone",
                  baseColor |-> <<255, 255, 255>>, inkColor |-> <<0, 0, 0>>],
     blendMode |-> "overlay",
     dotSizeMultiplier |-> 10,
     contrastIntensity |-> 100,
     noiseBlend |-> 20,
     opacity |-> 80]

\* the ridge density multiplied like the sizes
scaledGlobalEffectsDensityTimes(fx, exportSize, originalSize) ==
    [blur |-> IF fx.blur # Undef
              THEN [fx.blur EXCEPT !.strength = Times(@, exportSize, originalSize)]
              ELSE [enabled |-> FALSE, strength |-> 0],
     noise |-> [fx.noise EXCEPT !.scale = Times(@, exportSize, originalSize)],
     grain |-> [fx.grain EXCEPT !.size = Times(@, exportSize, originalSize)],
     metal |-> [fx.metal EXCEPT !.density = Times(@, exportSize, originalSize)],
     texture |-> IF fx.texture # Undef
                 THEN [fx.texture EXCEPT !.scale = Times(@, exportSize, originalSize)]
                 ELSE [enabled |-> FALSE, presetId |-> "frosted_glass_smooth_001",
                       opacity |-> 50, blendMode |-> "overlay",
                       scale |-> Times(100, exportSize, originalSize)],
     halftone |-> IF fx.halftone # Undef
                  THEN [fx.halftone EXCEPT
                           !.dotSizeMultiplier = Times(@, exportSize, originalSize)]
                  ELSE ExportHalftoneDefault]

scaledGlobalEffects(fx, exportSize, originalSize) ==
    [blur |-> IF fx.blur # Undef
              THEN [fx.blur EXCEPT !.strength = Times(@, exportSize, originalSize)]
              ELSE [enabled |-> FALSE, strength |-> 0],
     noise |-> [fx.noise EXCEPT !.scale = Times(@, exportSize, originalSize)],
     grain |-> [fx.grain EXCEPT !.size = Times(@, exportSize, originalSize)],
     metal |-> [fx.metal EXCEPT !.density = Over(@, exportSize, originalSize)],
     texture |-> IF fx.texture # Undef
                 THEN [fx.texture EXCEPT !.scale = Times(@, exportSize, originalSize)]
                 ELSE [enabled |-> FALSE, presetId |-> "frosted_glass_smooth_001",
                       opacity |-> 50, blendMode |-> "overlay",
                       scale |-> Times(100, exportSize, originalSize)],
     halftone |-> IF fx.halftone # Undef
                  THEN [fx.halftone EXCEPT
                           !.dotSizeMultiplier = Times(@, exportSize, originalSize)]
                  ELSE ExportHalftoneDefault]

exportComposition(composition, width, height) ==
    LET originalSize == Max(composition.canvas.width, composition.canvas.height)
        exportSize == Max(width, height)
    IN  [composition EXCEPT
            !.canvas.width = width,
            !.canvas.height = height,
            !.layers = scaledLayers(composition.layers, exportSize, originalSize),
            !.globalEffects = scaledGlobalEffects(composition.globalEffects, exportSize,
                                                  originalSize)]

\* ExportService.exportImage(composition, {format, resolution, aspectRatio}): a renderer
\* on a fresh canvas draws the scaled composition; canvas.toBlob gives a blob or null
ExportImage ==
    \E composition \in PoolOf(pool), resolution \in ImageResolutions,
       aspectRatio \in AspectRatios, blob \in BOOLEAN :
        \E dim \in {exportDimensions(resolution, aspectRatio)} :
        \E scaled \in {exportComposition(composition, dim.width, dim.height)} :
        \E seed \in SeedsOf(scaled) :
            /\ rs' = [rs EXCEPT ![1] =
                         canvasRender(CanvasRendererNew(dim.width, dim.height,
                                                        app.isFilterSupported),
                                      scaled, seed)]
            /\ app' = [app EXCEPT !.exported = composition,
                                  !.outcome = IF blob THEN "resolved" ELSE "rejected"]
            /\ UNCHANGED <<tex, pool>>

InitExport ==
    /\ pool = "export"
    /\ tex = NoTextures
    /\ rs = [i \in Instances |-> Absent]
    /\ \E f \in BOOLEAN :
          app = [mounted |-> FALSE, isFilterSupported |-> f, exported |-> Null,
                 outcome |-> "none"]

NextExport == ExportImage

SpecExport == InitExport /\ [][NextExport]_vars

\* scaled = original * exportLongEdge / originalLongEdge
IsTimes(scaled, original, c, e) ==
    scaled * Max(c.canvas.width, c.canvas.height)
        = original * Max(e.canvas.width, e.canvas.height)

\* C20: the composition an export renders has every layer blur radius and glow spread, the
\* global blur strength, the noise scale, the grain size, the texture scale and the halftone
\* dot-size multiplier multiplied by exportLongEdge / originalLongEdge and the metal ridge
\* density divided by it; at a factor of 1 nothing but the canvas size differs.
C20_ExportRescales ==
    app.exported # Null =>
        LET c == app.exported
            e == rs[1].lastComposition
            cfx == c.globalEffects
            efx == e.globalEffects
        IN  /\ \A k \in DOMAIN c.layers :
                  /\ c.layers[k].effects.blur # Undef =>
                        IsTimes(e.layers[k].effects.blur.radius,
                                c.layers[k].effects.blur.radius, c, e)
                  /\ c.layers[k].effects.glow # Undef =>
                        IsTimes(e.layers[k].effects.glow.spread,
                                c.layers[k].effects.glow.spread, c, e)
            /\ cfx.blur # Undef => IsTimes(efx.blur.strength, cfx.blur.strength, c, e)
            /\ IsTimes(efx.noise.scale, cfx.noise.scale, c, e)
            /\ IsTimes(efx.grain.size, cfx.grain.size, c, e)
            /\ cfx.texture # Undef => IsTimes(efx.texture.scale, cfx.texture.scale, c, e)
            /\ cfx.halftone # Undef =>
                  IsTimes(efx.halftone.dotSizeMultiplier, cfx.halftone.dotSizeMultiplier,
                          c, e)
            /\ IsTimes(cfx.metal.density, efx.metal.density, c, e)
            /\ (/\ Max(c.canvas.width, c.canvas.height) = Max(e.canvas.width, e.canvas.height)
                /\ cfx.blur # Undef /\ cfx.texture # Undef /\ cfx.halftone # Undef) =>
                  e = [c EXCEPT !.canvas.width = e.canvas.width,
                                !.canvas.height = e.canvas.height]

\* an export at twice the long edge of a composition with blurred, glowing layers and every
\* global effect: the ridge density is halved, the blur strength doubled
C20_Witness ==
    /\ app.exported # Null
    /\ Max(rs[1].lastComposition.canvas.width, rs[1].lastComposition.canvas.height)
          = 2 * Max(app.exported.canvas.width, app.exported.canvas.height)
    /\ app.exported.globalEffects.metal.density = 200
    /\ rs[1].lastComposition.globalEffects.metal.density = 100
    /\ app.exported.globalEffects.blur # Undef
    /\ rs[1].lastComposition.globalEffects.blur.strength = 20
    /\ \E k \in DOMAIN app.exported.layers :
          /\ Enabled(app.exported.layers[k].effects.blur)
          /\ rs[1].lastComposition.layers[k].effects.blur.radius = 16

\* an export at the composition's own long edge
C20_WitnessFactorOne ==
    /\ app.exported # Null
    /\ Max(rs[1].lastComposition.canvas.width, rs[1].lastComposition.canvas.height)
          = Max(app.exported.canvas.width, app.exported.canvas.height)
    /\ app.exported.globalEffects.halftone # Undef
    /\ Enabled(app.exported.globalEffects.metal)

(***************************************************************************)
(* A renderer that is drawn to, resized and destroyed over and over         *)
(* (SpecDestroy); app counts the destroy() calls                            *)
(***************************************************************************)
MaxDestroys == 3

DestroyCall(i) ==
    /\ Live(i)
    /\ app.destroys < MaxDestroys
    /\ rs' = [rs EXCEPT ![i] = rendererDestroy(rs[i])]
    /\ app' = [app EXCEPT !.destroys = @ + 1]
    /\ UNCHANGED <<tex, pool>>

InitDestroy ==
    /\ pool = "boot"
    /\ app = [mounted |-> FALSE, destroys |-> 0]
    /\ tex = NoTextures
    /\ \E r \in {IOSRendererNew(InitialSize[1], InitialSize[2], EditScreen),
                 CanvasRendererNew(InitialSize[1], InitialSize[2], TRUE),
                 CanvasRendererNew(InitialSize[1], InitialSize[2], FALSE)} :
          rs = [i \in Instances |-> IF i = 1 THEN r ELSE Absent]

NextDestroy == \E i \in Instances : Render(i) \/ Resize(i) \/ DestroyCall(i)

SpecDestroy == InitDestroy /\ [][NextDestroy]_vars

\* C21: a destroy() call, the first or a later one, before or after frames were drawn,
\* does not throw, leaves no scheduled redraw pending, and from the second call on leaves
\* the renderer exactly as it was.
C21_DestroyIdempotent ==
    [][app'.destroys # app.destroys =>
          \A i \in Instances : Live(i) =>
              /\ rs'[i].animationFrameId = Null
              /\ ~Threw(rs'[i])
              /\ app.destroys >= 1 => rs'[i] = rs[i]]_vars

\* a renderer destroyed twice and more after it drew a frame
C21_Witness ==
    \E i \in Instances : Rendered(i) /\ app.destroys >= 2 /\ rs[i].animationFrameId = Null

(***************************************************************************)
(* Either renderer drawing one layer in every blend mode (SpecBlend)        *)
(***************************************************************************)
InitBlend ==
    /\ pool = "blend"
    /\ app = AppIdle
    /\ tex = NoTextures
    /\ \E r \in {IOSRendererNew(InitialSize[1], InitialSize[2], EditScreen),
                 CanvasRendererNew(InitialSize[1], InitialSize[2], TRUE)} :
          rs = [i \in Instances |-> IF i = 1 THEN r ELSE Absent]

NextBlend == \E i \in Instances : Render(i) \/ Resize(i)

SpecBlend == InitBlend /\ [][NextBlend]_vars

\* the compositing operations under which the layers of a surface were painted
LayerOperations(content) ==
    {content[k].st.gco : k \in {j \in DOMAIN content : content[j].op = "layer"}}

C22_WitnessOwn ==
    \E i \in Instances :
        /\ Rendered(i)
        /\ rs[i].lastComposition.layers[1].blendMode = "color-burn"
        /\ LayerOperations(rs[i].canvas.content) = {"color-burn"}

(***************************************************************************)
(* The two box blurs of CanvasRenderer on the same pixel data (SpecBox):    *)
(* boxBlurHorizontal / boxBlurVertical sum the window anew for every pixel, *)
(* boxBlurH_fast / boxBlurV_fast slide it                                   *)
(***************************************************************************)
BoxColours == {<<10, 20, 30, 255>>, <<255, 255, 255, 255>>, <<255, 128, 0, 64>>}
BoxWidths == {1, 2, 3}
BoxHeights == {1, 2}
\* radii of 1, 2 and 4 px
BoxRadii4 == {4, 8, 16}

\* val / count stored into a Uint8ClampedArray: to the nearest integer, ties to even
StoreClamped(val, count) ==
    LET q == val \div count
        rem == val % count
        n == IF 2 * rem < count THEN q
             ELSE IF 2 * rem > count THEN q + 1
             ELSE IF q % 2 = 0 THEN q ELSE q + 1
    IN  Min(255, Max(0, n))

\* the loop for (k = j - r; k <= j + r; k++) over a row or a column of n pixels: the sum
\* of the samples and their number; base and stride place sample idx in the data
RECURSIVE WindowSum(_, _, _, _, _, _, _)
WindowSum(scl, n, base, stride, k4, last4, c) ==
    IF k4 > last4 THEN 0
    ELSE scl[base + ClampIdx4(n, k4) * stride + c]
            + WindowSum(scl, n, base, stride, k4 + 4, last4, c)

WindowCount(r4) == ((2 * r4) \div 4) + 1

boxBlurHorizontal(scl, w, h, r4) ==
    [p \in 0..(4 * w * h - 1) |->
        LET i == (p \div 4) \div w
            j == (p \div 4) % w
        IN  StoreClamped(WindowSum(scl, w, 4 * i * w, 1, 4 * j - r4, 4 * j + r4, p % 4),
                         WindowCount(r4))]

boxBlurVertical(scl, w, h, r4) ==
    [p \in 0..(4 * w * h - 1) |->
        LET i == (p \div 4) \div w
            j == (p \div 4) % w
        IN  StoreClamped(WindowSum(scl, h, 4 * j, w, 4 * i - r4, 4 * i + r4, p % 4),
                         WindowCount(r4))]

MaxPasses == 2

\* one horizontal pass over the data by both routines
BoxPassH ==
    /\ app.passes < MaxPasses
    /\ app' = [app EXCEPT !.passes = @ + 1,
                          !.last = "H",
                          !.source = app.fast,
                          !.fast = boxBlurH_fast(app.fast, app.w, app.h, app.r4),
                          !.direct = boxBlurHorizontal(app.fast, app.w, app.h, app.r4)]
    /\ UNCHANGED <<rs, tex, pool>>

\* one vertical pass over the data by both routines
BoxPassV ==
    /\ app.passes < MaxPasses
    /\ app' = [app EXCEPT !.passes = @ + 1,
                          !.last = "V",
                          !.source = app.fast,
                          !.fast = boxBlurV_fast(app.fast, app.w, app.h, app.r4),
                          !.direct = boxBlurVertical(app.fast, app.w, app.h, app.r4)]
    /\ UNCHANGED <<rs, tex, pool>>

InitBox ==
    /\ rs = [i \in Instances |-> Absent]
    /\ tex = NoTextures
    /\ pool = "boot"
    /\ \E w \in BoxWidths, h \in BoxHeights, r4 \in BoxRadii4 :
          \E pixels \in [0..(w * h - 1) -> BoxColours] :
             \E data \in {[p \in 0..(4 * w * h - 1) |-> pixels[p \div 4][(p % 4) + 1]]} :
                app = [w |-> w, h |-> h, r4 |-> r4, passes |-> 0, last |-> "none",
                       source |-> data, fast |-> data, direct |-> data]

NextBox == BoxPassH \/ BoxPassV

SpecBox == InitBox /\ [][NextBox]_vars

\* C23: a pass of the sliding-window box blur, horizontal or vertical, gives for every
\* pixel and channel what the direct box blur gives on the same data: the average of the
\* 2r+1 samples around the pixel with the indices clamped into the row or column.
C23_SlidingEqualsDirect == app.passes > 0 => app.fast = app.direct

\* a horizontal pass that changed a row shorter than the radius, and a vertical pass that
\* changed a column
C23_Witness ==
    /\ app.passes > 0 /\ app.last = "H" /\ app.fast # app.source
    /\ 4 * app.w < app.r4

C23_WitnessV ==
    /\ app.passes > 0 /\ app.last = "V" /\ app.fast # app.source /\ app.h = 2

(***************************************************************************)
(* The fallback blur of a surface on which every pixel differs (SpecPad)    *)
(***************************************************************************)
\* pixel number n of the surface has the bytes 16n+1, 16n+2, 16n+3, 255
PatternPixels(w, h) ==
    [p \in 0..(4 * w * h - 1) |-> IF p % 4 = 3 THEN 255 ELSE 16 * (p \div 4) + (p % 4) + 1]

InitPad ==
    /\ rs = [i \in Instances |-> Absent]
    /\ tex = NoTextures
    /\ pool = "boot"
    /\ \E width \in BlurSizes, height \in BlurSizes, r4 \in BlurStrengths4 :
          app = [phase |-> "filled", width |-> width, height |-> height,
                 r4 |-> r4, padding |-> 0, pass |-> 1,
                 canvas |-> PatternPixels(width, height),
                 px |-> << >>, tmp |-> << >>]

SpecPad == InitPad /\ [][NextBlur]_vars

\* C24: the working buffer of the blur is the surface padded on every side by
\* min(width, height, ceil(2 * strength)) pixels, so at most 3 times the surface either
\* way; before it is blurred each of its pixels is the surface pixel nearest to it; and
\* the surface ends up holding the buffer's region at offset (padding, padding).
C24_PaddedBuffer ==
    app.phase # "filled" =>
        LET padding == app.padding
            tW == app.width + 2 * padding
            tH == app.height + 2 * padding
        IN  /\ padding = Min(app.width, Min(app.height, (app.r4 + 1) \div 2))
            /\ tW <= 3 * app.width /\ tH <= 3 * app.height
            /\ DOMAIN app.px = 0..(4 * tW * tH - 1)
            /\ (\/ app.phase \in {"H", "V"} /\ app.pass = 1
                \/ app.phase = "blurred" /\ app.r4 < 4) =>
                  \A x \in 0..(tW - 1), y \in 0..(tH - 1), c \in 0..3 :
                      LET nx == IF x < padding THEN 0
                                ELSE IF x >= padding + app.width THEN app.width - 1
                                ELSE x - padding
                          ny == IF y < padding THEN 0
                                ELSE IF y >= padding + app.height THEN app.height - 1
                                ELSE y - padding
                      IN  app.tmp[4 * (y * tW + x) + c]
                             = app.canvas[4 * (ny * app.width + nx) + c]
            /\ app.phase = "done" =>
                  /\ DOMAIN app.canvas = 0..(4 * app.width * app.height - 1)
                  /\ \A x \in 0..(app.width - 1), y \in 0..(app.height - 1), c \in 0..3 :
                        app.canvas[4 * (y * app.width + x) + c]
                           = app.px[4 * ((y + padding) * tW + x + padding) + c]

\* a 3x2 surface blurred at strength 2: the padding is capped by the height, and the
\* blurred buffer has been drawn back
C24_Witness ==
    /\ app.phase = "done" /\ app.width = 3 /\ app.height = 2 /\ app.r4 = 8
    /\ app.padding = 2 /\ app.canvas # PatternPixels(3, 2)

\* the glow passes painted for a layer, under the copies and blurs made of the surface
RECURSIVE GlowPaints(_, _)
GlowPaints(content, id) ==
    IF content = << >> THEN << >>
    ELSE IF content[1].op \in {"image", "blur"} THEN GlowPaints(content[1].src, id)
    ELSE SelectSeq(content, LAMBDA o : o.op = "glow" /\ o.id = id)

\* the layers of the last composition that are drawn with a glow
Glowing(i) ==
    {k \in DOMAIN rs[i].lastComposition.layers :
        LET layer == rs[i].lastComposition.layers[k]
        IN  /\ layer.visible /\ ~Skipped(layer)
            /\ Enabled(layer.effects.glow) /\ layer.effects.glow.intensity > 0}

\* C25: a glowing layer is redrawn exactly 3 more times under 'screen', each pass with a
\* strictly larger blur and a strictly lower opacity than the one before, the opacities in
\* a constant ratio.
C25_GlowGeometric ==
    (Rendered(1) /\ ~Threw(rs[1])) =>
        \A k \in Glowing(1) :
            LET g == GlowPaints(rs[1].canvas.content, rs[1].lastComposition.layers[k].id)
            IN  /\ Len(g) = 3
                /\ \A n \in 1..3 : g[n].st.gco = "screen"
                /\ g[1].st.alpha > g[2].st.alpha /\ g[2].st.alpha > g[3].st.alpha
                /\ g[1].st.filter < g[2].st.filter /\ g[2].st.filter < g[3].st.filter
                /\ g[1].st.alpha * g[3].st.alpha = g[2].st.alpha * g[2].st.alpha

\* C25 (amended): a glowing layer is redrawn exactly 3 more times under 'screen' at the
\* opacities 0.3, 0.2 and 0.1 times the intensity (equal steps down, not a constant
\* ratio); with filter support the passes are blurred by 1/3, 2/3 and 3/3 of the spread,
\* without it they are not blurred at all.
C25_GlowLinear ==
    (Rendered(1) /\ ~Threw(rs[1])) =>
        \A k \in Glowing(1) :
            LET layer == rs[1].lastComposition.layers[k]
                g == GlowPaints(rs[1].canvas.content, layer.id)
            IN  /\ Len(g) = 3
                /\ \A n \in 1..3 :
                      /\ g[n].st.gco = "screen"
                      /\ g[n].st.alpha = (4 - n) * layer.effects.glow.intensity
                      /\ g[n].st.filter = IF rs[1].isFilterSupported
                                          THEN n * layer.effects.glow.spread ELSE 0

\* an export without filter support of a composition with a glowing layer
C25_Witness ==
    /\ Rendered(1) /\ ~Threw(rs[1]) /\ ~rs[1].isFilterSupported
    /\ \E k \in Glowing(1) : rs[1].lastComposition.layers[k].effects.glow.spread = 32

\* the same with filter support
C25_WitnessFiltered ==
    /\ Rendered(1) /\ ~Threw(rs[1]) /\ rs[1].isFilterSupported
    /\ \E k \in Glowing(1) : rs[1].lastComposition.layers[k].effects.glow.spread = 32

(***************************************************************************)
(* An IOSRenderer resized to containers of every shape on displays of every *)
(* pixel ratio (SpecResize); app keeps the arguments of the last resize     *)
(***************************************************************************)
\* CSS sizes up to and beyond the cap, wide, tall and square
LargeCssSizes == {<<60, 40>>, <<1024, 768>>, <<1025, 1025>>, <<2048, 2048>>,
                  <<3000, 10>>, <<1, 5000>>, <<1366, 1024>>, <<2049, 2047>>}
\* pixel ratios 0.5, 1, 1.5, 2, 2.75 and 3
WideDprs == {2, 4, 6, 8, 11, 12}

ResizeTo(i) ==
    /\ Live(i)
    /\ \E size \in LargeCssSizes, dpr \in WideDprs, seed \in SeedsOf(rs[i].lastComposition) :
          /\ rs' = [rs EXCEPT ![i] = rendererResize(rs[i], tex, size[1], size[2], dpr, seed)]
          /\ app' = [app EXCEPT !.resized = <<size[1], size[2], dpr>>]
    /\ UNCHANGED <<tex, pool>>

InitResize ==
    /\ pool = "pair"
    /\ app = [mounted |-> FALSE, resized |-> << >>]
    /\ tex = NoTextures
    /\ rs = [i \in Instances |-> IF i = 1
                                 THEN IOSRendererNew(InitialSize[1], InitialSize[2],
                                                     EditScreen)
                                 ELSE Absent]

NextResize == \E i \in Instances : Render(i) \/ ResizeTo(i)

SpecResize == InitResize /\ [][NextResize]_vars

\* C26: the constrained dimensions of every container size and pixel ratio have a ratio
\* of at most 2 and a width and a height of at most 2048, and since its last resize the
\* visible canvas and the offscreen buffer of an IOSRenderer have exactly those dimensions.
C26_Constrained ==
    /\ \A size \in LargeCssSizes, dpr \in WideDprs :
          LET d == getConstrainedDimensions(size[1], size[2], dpr)
          IN  d.dpr <= 8 /\ d.width <= 2048 /\ d.height <= 2048
    /\ app.resized # << >> =>
          LET d == getConstrainedDimensions(app.resized[1], app.resized[2], app.resized[3])
          IN  /\ rs[1].canvas.width = d.width /\ rs[1].canvas.height = d.height
              /\ rs[1].offscreen.width = d.width /\ rs[1].offscreen.height = d.height
              /\ rs[1].canvas.width <= 2048 /\ rs[1].canvas.height <= 2048

\* a tall container on a 3x display: the height is what exceeds the cap
C26_Witness ==
    /\ app.resized = <<1, 5000, 12>>
    /\ rs[1].canvas.height = 2048 /\ rs[1].canvas.width = 0
    /\ Rendered(1)

(***************************************************************************)
(* compositionStore.ts (SpecStore): app is the store; crypto.randomUUID     *)
(* hands out the identifiers 1, 2, ... as [uuid |-> n]                      *)
(***************************************************************************)
MaxUuids == 5

\* rng.nextInt(2, 4)
GeneratedLayerCounts == {2, 3, 4}
\* generator.getSeed()
StoreSeeds == {"seed-a", "seed-b"}

\* createDefaultLayer(`Layer ${n}`) with the identifier crypto.randomUUID returned
storeLayer(uuid, n) == [id |-> [uuid |-> uuid], name |-> n] @@ LayerRadial

\* GradientGenerator.generate(): layerCount layers named Layer 1.., the default global
\* effects with the archetype's grain; the palette's colours are left out
generate(firstUuid, layerCount, grainEnabled) ==
    [canvas |-> [width |-> 1920, height |-> 1080, backgroundColor |-> "#0a0a0a"],
     layers |-> [k \in 1..layerCount |-> storeLayer(firstUuid + k - 1, k)],
     globalEffects |-> [createDefaultGlobalEffects EXCEPT
                           !.grain = [enabled |-> grainEnabled, amount |-> 10, size |-> 1]]]

LayerIds(layers) == {layers[k].id : k \in DOMAIN layers}

\* the partial updates the effect panels send
GlobalEffectPartials ==
    {[blur |-> [enabled |-> TRUE, strength |-> 10]],
     [grain |-> [enabled |-> TRUE, amount |-> 50, size |-> 2]],
     [halftone |-> [createDefaultHalftoneEffect EXCEPT !.enabled = TRUE]],
     [metal |-> [enabled |-> TRUE, density |-> 100, opacity |-> 50,
                 blendMode |-> "overlay"],
      grain |-> [enabled |-> FALSE, amount |-> 10, size |-> 1]]}

\* globalEffects: { grain: effects.grain ?? state.composition.previous.grain }
updateGlobalEffects(previous, effects) ==
    [grain |-> IF "grain" \in DOMAIN effects THEN effects.grain ELSE previous.grain]

\* removeLayer that keeps the active identifier whatever is removed
removeLayerKeepingActive(store, layerId) ==
    [store EXCEPT !.composition.layers =
                      SelectSeq(store.composition.layers, LAMBDA l : l.id # layerId)]

removeLayer(store, layerId) ==
    LET newLayers == SelectSeq(store.composition.layers, LAMBDA l : l.id # layerId)
        newActiveId == IF store.ui.activeLayerId = layerId
                       THEN (IF Len(newLayers) > 0 THEN newLayers[Len(newLayers)].id
                             ELSE Null)
                       ELSE store.ui.activeLayerId
    IN  [store EXCEPT !.composition.layers = newLayers,
                      !.ui.activeLayerId = newActiveId]

IdleUi == [activeLayerId |-> Null, isPreviewing |-> FALSE, isAnimating |-> FALSE]

AddLayer ==
    /\ app.uuids < MaxUuids
    /\ LET newLayer == storeLayer(app.uuids + 1, Len(app.composition.layers) + 1)
       IN  app' = [app EXCEPT !.composition.layers = Append(@, newLayer),
                              !.ui.activeLayerId = newLayer.id,
                              !.uuids = @ + 1,
                              !.last = [op |-> "addLayer"]]
    /\ UNCHANGED <<rs, tex, pool>>

\* removeLayer(layerId) with the identifier of a present or an already removed layer
RemoveLayer ==
    /\ \E uuid \in 1..app.uuids :
          app' = [removeLayer(app, [uuid |-> uuid]) EXCEPT
                     !.last = [op |-> "removeLayer", layerId |-> [uuid |-> uuid],
                               wasActive |-> app.ui.activeLayerId = [uuid |-> uuid]]]
    /\ UNCHANGED <<rs, tex, pool>>

\* setActiveLayer(layerId) from the layer list, or setActiveLayer(null)
SetActiveLayer ==
    /\ \E layerId \in LayerIds(app.composition.layers) \cup {Null} :
          app' = [app EXCEPT !.ui.activeLayerId = layerId,
                             !.last = [op |-> "setActiveLayer"]]
    /\ UNCHANGED <<rs, tex, pool>>

UpdateGlobalEffects ==
    /\ \E effects \in GlobalEffectPartials :
          app' = [app EXCEPT !.composition.globalEffects = updateGlobalEffects(@, effects),
                             !.last = [op |-> "updateGlobalEffects", effects |-> effects]]
    /\ UNCHANGED <<rs, tex, pool>>

GenerateNewGradient ==
    /\ \E layerCount \in GeneratedLayerCounts, grainEnabled \in BOOLEAN, seed \in StoreSeeds :
          /\ app.uuids + layerCount <= MaxUuids
          /\ app' = [app EXCEPT !.composition = generate(app.uuids + 1, layerCount,
                                                         grainEnabled),
                                !.seed = seed,
                                !.ui = IdleUi,
                                !.uuids = @ + layerCount,
                                !.last = [op |-> "generateNewGradient"]]
    /\ UNCHANGED <<rs, tex, pool>>

ResetToDefault ==
    /\ \E layerCount \in GeneratedLayerCounts, grainEnabled \in BOOLEAN, seed \in StoreSeeds :
          /\ app.uuids + layerCount <= MaxUuids
          /\ app' = [app EXCEPT !.composition = generate(app.uuids + 1, layerCount,
                                                         grainEnabled),
                                !.seed = seed,
                                !.viewMode = "discovery",
                                !.ui = IdleUi,
                                !.uuids = @ + layerCount,
                                !.last = [op |-> "resetToDefault"]]
    /\ UNCHANGED <<rs, tex, pool>>

SetViewMode ==
    /\ \E mode \in {"discovery", "advanced"} :
          app' = [app EXCEPT !.viewMode = mode, !.last = [op |-> "setViewMode"]]
    /\ UNCHANGED <<rs, tex, pool>>

InitStore ==
    /\ rs = [i \in Instances |-> Absent]
    /\ tex = NoTextures
    /\ pool = "boot"
    /\ \E layerCount \in GeneratedLayerCounts, grainEnabled \in BOOLEAN, seed \in StoreSeeds :
          app = [composition |-> generate(1, layerCount, grainEnabled),
                 ui |-> IdleUi,
                 viewMode |-> "discovery",
                 seed |-> seed,
                 uuids |-> layerCount,
                 last |-> [op |-> "create"]]

NextStore ==
    \/ AddLayer \/ RemoveLayer \/ SetActiveLayer \/ UpdateGlobalEffects
    \/ GenerateNewGradient \/ ResetToDefault \/ SetViewMode

SpecStore == InitStore /\ [][NextStore]_vars

GlobalEffectBlocks == {"blur", "grain", "noise", "halftone", "metal", "texture"}

\* C27: updateGlobalEffects(partial) leaves every global effect block that the partial does
\* not mention at its previous value, and leaves the layers, the canvas settings and the
\* UI state alone.
C27_PartialUpdateKeepsRest ==
    [][app'.last.op = "updateGlobalEffects" =>
          /\ \A block \in (GlobalEffectBlocks \cap DOMAIN app.composition.globalEffects)
                              \ DOMAIN app'.last.effects :
                /\ block \in DOMAIN app'.composition.globalEffects
                /\ app'.composition.globalEffects[block] = app.composition.globalEffects[block]
          /\ app'.composition.layers = app.composition.layers
          /\ app'.composition.canvas = app.composition.canvas
          /\ app'.ui = app.ui]_vars

\* C30: ui.activeLayerId is null or the identifier of a layer of the composition, and a
\* removeLayer of the active layer leaves the last remaining layer active, or null when
\* no layer remains.
C30_ActiveLayerExists ==
    [][/\ app'.ui.activeLayerId \in LayerIds(app'.composition.layers) \cup {Null}
       /\ (app'.last.op = "removeLayer" /\ app.ui.activeLayerId = app'.last.layerId) =>
             app'.ui.activeLayerId =
                IF app'.composition.layers = << >> THEN Null
                ELSE app'.composition.layers[Len(app'.composition.layers)].id]_vars

\* the active layer was removed while others remained
C30_Witness ==
    /\ app.last.op = "removeLayer" /\ app.last.wasActive
    /\ app.last.layerId \notin LayerIds(app.composition.layers)
    /\ app.composition.layers # << >>
    /\ app.ui.activeLayerId = app.composition.layers[Len(app.composition.layers)].id

\* the only layer, active, was removed
C30_WitnessEmpty ==
    /\ app.last.op = "removeLayer" /\ app.last.wasActive
    /\ app.composition.layers = << >>
    /\ app.ui.activeLayerId = Null

(***************************************************************************)
(* The drawing-context state of CanvasRenderer between layers and frames   *)
(***************************************************************************)
\* C28: after every call of a CanvasRenderer the visible context is back at its default
\* state with nothing left on its save stack, so that the next frame's background fill,
\* layers and global effects start from the default composite operation, alpha,
\* transform and filter.
C28_NoStateLeak ==
    \A i \in Instances :
        (Live(i) /\ rs[i].kind = "canvas") =>
            /\ rs[i].canvas.stack = << >>
            /\ rs[i].canvas.st = DefaultState

\* the same, after the calls that ended without an exception on a context nothing was
\* left on before
C28_NoLeakWithoutException ==
    [][\A i \in Instances :
          (/\ Live(i) /\ rs[i].kind = "canvas"
           /\ rs[i].canvas.stack = << >> /\ rs[i].canvas.st = DefaultState
           /\ rs'[i] # rs[i] /\ ~Threw(rs'[i])) =>
              /\ rs'[i].canvas.stack = << >>
              /\ rs'[i].canvas.st = DefaultState]_vars

(***************************************************************************)
(* The texture cache under interleaved image loads and frames (SpecLoad)   *)
(***************************************************************************)
\* the textures a call of the renderer tiled
Tiled(r) == {r.log[k].texture : k \in {j \in DOMAIN r.log : r.log[j].ev = "tile"}}

\* C29: in every step, loaded is true afterwards only when all six textures are stored,
\* and a call of the renderer tiles a texture only when loaded was true when the call was
\* made; a texture stored while another is pending or has failed is not tiled.
C29_TiledOnlyWhenLoaded ==
    [][/\ tex'.loaded =>
             /\ tex'.grain = GrainIntensities /\ tex'.blur = BlurIntensities
             /\ \A image \in Images : tex'.img[image] = "loaded"
       /\ \A i \in Instances :
             (Live(i) /\ rs'[i] # rs[i] /\ Tiled(rs'[i]) # {}) =>
                 /\ tex.loaded
                 /\ \A image \in Images : tex.img[image] = "loaded"]_vars

\* a frame with grain and blur drawn while the textures it would tile are stored and
\* another request is still pending: drawn procedurally
C29_Witness ==
    /\ ~tex.loaded /\ tex.loading = "pending"
    /\ \E image \in Images : tex.img[image] = "loading"
    /\ tex.grain # {} /\ tex.blur # {}
    /\ \E c \in PoolOf(pool) : UsesAssets(rs[1], [tex EXCEPT !.loaded = TRUE], c)
    /\ \E k \in DOMAIN rs[1].log : rs[1].log[k].ev = "noise"
    /\ Tiled(rs[1]) = {}

\* a frame drawn after the sixth texture arrived tiles the assets
C29_WitnessLoaded ==
    /\ tex.loaded
    /\ \E t \in Tiled(rs[1]) : t[1] = "grain"
    /\ \E t \in Tiled(rs[1]) : t[1] = "blur"

====
